---- MODULE Spec2Model ----
(***************************************************************************)
(* Dual-write coordination of backend/shared/dual_write_manager.py:        *)
(* BaseDualWriteManager.dual_write runs a new-store and a legacy-store     *)
(* operation as two concurrent tasks, each in a session of its own, then   *)
(* validates, then applies the failure policy.  The store operations are   *)
(* those of CartDualWriteManager.add_cart_item (an upsert of one           *)
(* cart_items row).                                                        *)
(***************************************************************************)
EXTENDS Integers, Sequences, FiniteSets, TLC

\* ---------------------------------------------------------------- bounds
MaxCalls == 2          \* dual_write calls made on the coordinator in one run
MaxQty == 2            \* quantities passed to add_cart_item are 1..MaxQty
MaxOps == 3            \* Config Manager calls made in one run
MaxBatch == 2          \* longest entity_ids list given to validate_batch_sync
MaxResults == 3        \* longest list given to generate_sync_report
MaxCartCalls == 3       \* create_cart calls made on one coordinator
MaxSwitches == 3        \* cut-over operations applied to one settings object
MaxRecords == 3        \* record_validation calls made in one run

\* ------------------------------------------------------------ data model
\* The cart_items row (cart_id, product_id) is absent: the SELECT of
\* add_cart_item returns None.
NoRow == 0

Quantities == 1 .. MaxQty

\* Python's None in the error fields of a result.
None == "None"

\* Exceptions the new store can raise: inside the operation, or at commit.
NewErrors == {"new_op_error", "new_commit_error"}

\* Exceptions the legacy store can raise: inside the operation, or at commit.
LegacyErrors == {"legacy_op_error", "legacy_commit_error"}

\* DualWriteConfig.__init__: the six flags dual_write reads.
DualWriteConfig ==
    [enabled : BOOLEAN, write_to_legacy : BOOLEAN, write_to_new : BOOLEAN,
     validate_sync : BOOLEAN, fail_on_legacy_error : BOOLEAN,
     fail_on_new_error : BOOLEAN]

\* DualWriteResult.__init__
DualWriteResult ==
    [new_db_success |-> FALSE, legacy_db_success |-> FALSE,
     new_db_error |-> None, legacy_db_error |-> None,
     sync_validated |-> FALSE]

\* Truthiness of an Optional[Exception] field: an exception object is truthy.
Truthy(e) == e # None

\* A success that is satisfied by either store.
SuccessEitherStore(r) == r.new_db_success \/ r.legacy_db_success

SuccessRequiresValidation(r) ==
    r.new_db_success /\ r.legacy_db_success /\ r.sync_validated

\* DualWriteResult.success
Success(r) ==
    r.new_db_success /\ (r.legacy_db_success \/ ~Truthy(r.legacy_db_error))

VARIABLES
    config,          \* self.config of the coordinator
    pc,              \* position of dual_write: idle, new_only, gather,
                     \* validating, returned, raised
    calls,           \* number of dual_write calls started so far
    quantity,        \* the quantity argument of the call in flight
    has_validation,  \* whether a validation_operation was supplied
    result,          \* the DualWriteResult of the call
    raised,          \* the exception dual_write raised, None if none
    new_pc,          \* new-store task: none, running, committing,
                     \* closing_ok, closing_err, done, failed
    legacy_pc,       \* legacy-store task, same positions
    new_exc,         \* exception raised inside the new-store task
    legacy_exc,      \* exception raised inside the legacy-store task
    new_session,     \* session of the call on the new store: none, open, closed
    legacy_session,  \* session of the call on the legacy store
    new_pending,     \* uncommitted row image in the new-store session
    legacy_pending,  \* uncommitted row image in the legacy-store session
    new_store,       \* committed quantity of the row in the new store
    legacy_store,    \* committed quantity of the row in the legacy store
    validation_ran,  \* the validation operation was invoked in this call
    validation_outcome, \* how it ended: none, true, false, raise
    commit_log,      \* stores in the order they committed in this call
    new_store_before,    \* the new store's row when the call started
    legacy_store_before, \* the legacy store's row when the call started
    orders_seen      \* commit orders of the two stores seen in calls so far

\* ------------------------------------------------- the Config Manager
VARIABLES
    constructed,     \* the coordinator of CoordService has been constructed
    cache,           \* DualWriteConfigManager._settings_cache
    env,             \* os.environ: per service prefix, variable -> raw string
    env_reads,       \* per service, how often from_env read the environment
    got,             \* the settings the last get_settings call returned
    last_op,         \* the last Config Manager call: <<name, service>>
    ops              \* number of Config Manager calls so far

\* The Sync Validator's state.
VARIABLES
    new_db_row,      \* the entity's row in the new store, Absent if none
    legacy_db_row,   \* the entity's row in the legacy store
    ignore_fields,   \* ignore_fields of the last validate_entity_sync call
    fetch_fault,     \* the fetch that raised in the last call: none, new,
                     \* legacy
    sync_result,     \* the SyncValidationResult the last call returned
    sync_raised,     \* the exception the last call raised, None if none
    hash_order,      \* the order in which this process iterates a set of
                     \* field names (fixed by the process's string hashing)
    repeated         \* the last call repeated the arguments and the fetch
                     \* outcome of the call before it

val_vars == <<new_db_row, legacy_db_row, ignore_fields, fetch_fault,
              sync_result, sync_raised, hash_order, repeated>>

cfg_vars == <<constructed, cache, env, env_reads, got, last_op, ops>>

\* The coordinator's own state, its call in flight and the two stores.
dw_vars == <<config, pc, calls, quantity, has_validation, result, raised,
             new_pc, legacy_pc, new_exc, legacy_exc, new_session,
             legacy_session, new_pending, legacy_pending, new_store,
             legacy_store, validation_ran, validation_outcome, commit_log,
             new_store_before, legacy_store_before, orders_seen>>

\* ------------------------------------------------- further components
\* validate_batch_sync: the rows of the entities and the last call.
VARIABLES
    new_db_rows,     \* per entity id, its row in the new store
    legacy_db_rows,  \* per entity id, its row in the legacy store
    batch_ids,       \* entity_ids of the last validate_batch_sync call
    batch_faults,    \* per position of the list, the fetch that raised
    batch_ignore,    \* ignore_fields of the last call
    batch_results,   \* the list the last call returned
    batch_calls      \* 1 once validate_batch_sync has been called

batch_vars == <<new_db_rows, legacy_db_rows, batch_ids, batch_faults, batch_ignore, batch_results, batch_calls>>

\* generate_sync_report: its argument and the report it returned.
VARIABLES
    validation_results, \* the list given to the last generate_sync_report call
    report           \* the report the last call returned

report_vars == <<validation_results, report>>

\* SyncMetrics.
VARIABLES
    validation_count, \* SyncMetrics.validation_count
    sync_success_count, \* SyncMetrics.sync_success_count
    sync_failure_count, \* SyncMetrics.sync_failure_count
    validation_errors, \* SyncMetrics.validation_errors
    recorded,        \* every error string ever appended, in order
    records          \* record_validation calls made in this run

metrics_vars == <<validation_count, sync_success_count, sync_failure_count, validation_errors, recorded, records>>

\* The coordinator's engines: health_check and close.
VARIABLES
    new_pool,        \* connection pool of new_engine: open, disposed
    legacy_pool,     \* connection pool of legacy_engine
    dispose_calls,   \* the engines close() called dispose() on, in order
    dispose_raised,  \* the engines whose dispose() raised in close()
    closed,          \* close() has returned
    close_raised,    \* the exception close() raised, None if none
    health_status,   \* the dictionary the last health_check returned
    health_raised,   \* the exception the last health_check raised
    check_faults     \* how the two checks of the last health_check ended

conn_vars == <<new_pool, legacy_pool, dispose_calls, dispose_raised, closed, close_raised, health_status, health_raised, check_faults>>

\* dual_write calls in flight together on one coordinator.
VARIABLES
    c_pc,            \* per call, its position: idle, new_only, gather, validating, returned, raised
    c_result,        \* per call, the result object it made (0: none yet)
    c_raised,        \* per call, the exception dual_write raised
    results,         \* the DualWriteResult objects, by object number
    t_pc,            \* per call and store, the position of the store task
    t_exc,           \* per call and store, the exception raised in the task
    t_session,       \* per call and store, the session of the task (0: none)
    sessions         \* the sessions made so far, by session number

conc_vars == <<c_pc, c_result, c_raised, results, t_pc, t_exc, t_session, sessions>>

\* CartDualWriteManager.create_cart: the carts tables of the two stores.
VARIABLES
    cart_users,      \* per store, the uids of its users table
    carts,           \* per store, the rows of its carts table in insertion order
    cart_seq,        \* per store, the last value its carts.id sequence gave
    cart_calls,      \* number of create_cart calls made
    cart_log         \* the last two create_cart calls: user, store health, outcome

cart_vars == <<cart_users, carts, cart_seq, cart_calls, cart_log>>

\* DualWriteSettings.from_env on the environment of the process.
VARIABLES
    environ,         \* os.environ: per variable, its string or Unset
    from_env_result, \* the DualWriteSettings object from_env returned
    from_env_raised  \* the exception from_env raised

env_vars == <<environ, from_env_result, from_env_raised>>

\* The cart service's settings and the coordinator made from them.
VARIABLES
    app_settings,    \* the dual_write_* flags of Settings, as strings
    legacy_database_url, \* settings.legacy_database_url
    dual_write_manager, \* the module's dual_write_manager
    svc_started,     \* init_dual_write has run
    svc_outcome      \* what the dual_write call on that coordinator did

svc_vars == <<app_settings, legacy_database_url, dual_write_manager, svc_started, svc_outcome>>

\* Cut-over operations applied in sequence to one service's settings.
VARIABLES
    initial_settings, \* the settings object before the first operation
    current_settings, \* the settings object now
    switch_trace     \* the operations applied, in order

switch_vars == <<initial_settings, current_settings, switch_trace>>

\* AuthDualWriteManager.sync_entity: the users row of one uid in each store.
VARIABLES
    auth_users,      \* per store, the users row of the uid
    sync_direction,  \* direction of the sync_entity call
    sync_returned,   \* what sync_entity returned
    validate_returned \* what validate_user_sync returned afterwards

auth_vars == <<auth_users, sync_direction, sync_returned, validate_returned>>

\* The state of the components other than the coordinator, the Config
\* Manager and validate_entity_sync.
ext_vars == <<batch_vars, report_vars, metrics_vars, conn_vars, conc_vars, cart_vars, env_vars, svc_vars, switch_vars, auth_vars>>

\* What the operations on the batch variables leave alone.
batch_frame ==
    <<dw_vars, cfg_vars, val_vars, report_vars, metrics_vars, conn_vars, conc_vars, cart_vars, env_vars, svc_vars, switch_vars, auth_vars>>

\* What the operations on the report variables leave alone.
report_frame ==
    <<dw_vars, cfg_vars, val_vars, batch_vars, metrics_vars, conn_vars, conc_vars, cart_vars, env_vars, svc_vars, switch_vars, auth_vars>>

\* What the operations on the metrics variables leave alone.
metrics_frame ==
    <<dw_vars, cfg_vars, val_vars, batch_vars, report_vars, conn_vars, conc_vars, cart_vars, env_vars, svc_vars, switch_vars, auth_vars>>

\* What the operations on the conn variables leave alone.
conn_frame ==
    <<dw_vars, cfg_vars, val_vars, batch_vars, report_vars, metrics_vars, conc_vars, cart_vars, env_vars, svc_vars, switch_vars, auth_vars>>

\* What the operations on the conc variables leave alone.
conc_frame ==
    <<dw_vars, cfg_vars, val_vars, batch_vars, report_vars, metrics_vars, conn_vars, cart_vars, env_vars, svc_vars, switch_vars, auth_vars>>

\* What the operations on the cart variables leave alone.
cart_frame ==
    <<dw_vars, cfg_vars, val_vars, batch_vars, report_vars, metrics_vars, conn_vars, conc_vars, env_vars, svc_vars, switch_vars, auth_vars>>

\* What the operations on the env variables leave alone.
env_frame ==
    <<dw_vars, cfg_vars, val_vars, batch_vars, report_vars, metrics_vars, conn_vars, conc_vars, cart_vars, svc_vars, switch_vars, auth_vars>>

\* What the operations on the svc variables leave alone.
svc_frame ==
    <<dw_vars, cfg_vars, val_vars, batch_vars, report_vars, metrics_vars, conn_vars, conc_vars, cart_vars, env_vars, switch_vars, auth_vars>>

\* What the operations on the switch variables leave alone.
switch_frame ==
    <<dw_vars, cfg_vars, val_vars, batch_vars, report_vars, metrics_vars, conn_vars, conc_vars, cart_vars, env_vars, svc_vars, auth_vars>>

\* What the operations on the auth variables leave alone.
auth_frame ==
    <<dw_vars, cfg_vars, val_vars, batch_vars, report_vars, metrics_vars, conn_vars, conc_vars, cart_vars, env_vars, svc_vars, switch_vars>>

\* All variables of the model.
vars == <<dw_vars, cfg_vars, val_vars, ext_vars>>

\* What does not change while the two store tasks and the validation run.
call_frame == <<config, calls, quantity, has_validation,
                new_store_before, legacy_store_before, cfg_vars, val_vars,
                ext_vars>>

\* Service names the Config Manager is asked about.
Services == {"cart", "auth"}

\* The service whose coordinator (CartDualWriteManager) is modelled.
CoordService == "cart"

\* The boolean fields of DualWriteSettings.
BoolFields ==
    {"enabled", "write_to_legacy", "write_to_new", "fail_on_legacy_error",
     "fail_on_new_error", "validate_sync", "async_legacy_writes",
     "log_all_operations", "log_errors_only", "metrics_enabled"}

\* The integer fields of DualWriteSettings.
IntFields == {"sync_validation_interval", "batch_size"}

\* The dataclass fields of DualWriteSettings.
Fields == BoolFields \cup IntFields

\* Attributes of a DualWriteSettings object that are not fields: its methods
\* (to_dict stands for them), found by hasattr like any field.
Methods == {"to_dict"}

\* str.lower() on the raw strings the environment holds here.
Lower(raw) ==
    IF raw \in {"TRUE", "True"} THEN "true"
    ELSE IF raw = "False" THEN "false"
    ELSE raw

\* str(default) of a bool.
StrBool(b) == IF b THEN "True" ELSE "False"

\* DualWriteSettings._get_bool_env on the variables e of one prefix.
GetBoolEnv(e, key, default) ==
    LET value == Lower(IF key \in DOMAIN e THEN e[key] ELSE StrBool(default))
    IN  value \in {"true", "1", "yes", "on"}

\* int(raw) for the raw strings the environment holds here; every other
\* string makes int() raise ValueError.
IntLiterals == ("300" :> 300) @@ ("100" :> 100) @@ ("60" :> 60)

\* DualWriteSettings._get_int_env
GetIntEnv(e, key, default) ==
    IF key \notin DOMAIN e THEN default
    ELSE IF e[key] \in DOMAIN IntLiterals THEN IntLiterals[e[key]]
    ELSE default

\* DualWriteSettings.from_env: the object built from the variables e.
FromEnv(e) ==
    [enabled |-> GetBoolEnv(e, "DUAL_WRITE_ENABLED", TRUE),
     write_to_legacy |-> GetBoolEnv(e, "DUAL_WRITE_TO_LEGACY", TRUE),
     write_to_new |-> GetBoolEnv(e, "DUAL_WRITE_TO_NEW", TRUE),
     fail_on_legacy_error |->
         GetBoolEnv(e, "DUAL_WRITE_FAIL_ON_LEGACY_ERROR", FALSE),
     fail_on_new_error |-> GetBoolEnv(e, "DUAL_WRITE_FAIL_ON_NEW_ERROR", TRUE),
     validate_sync |-> GetBoolEnv(e, "DUAL_WRITE_VALIDATE_SYNC", TRUE),
     sync_validation_interval |-> GetIntEnv(e, "DUAL_WRITE_SYNC_INTERVAL", 300),
     async_legacy_writes |-> GetBoolEnv(e, "DUAL_WRITE_ASYNC_LEGACY", TRUE),
     batch_size |-> GetIntEnv(e, "DUAL_WRITE_BATCH_SIZE", 100),
     log_all_operations |-> GetBoolEnv(e, "DUAL_WRITE_LOG_ALL", FALSE),
     log_errors_only |-> GetBoolEnv(e, "DUAL_WRITE_LOG_ERRORS_ONLY", TRUE),
     metrics_enabled |-> GetBoolEnv(e, "DUAL_WRITE_METRICS_ENABLED", TRUE),
     to_dict |-> "method"]

\* Environments a service prefix is given: nothing set; both writers off;
\* a mix of recognised words, an integer and a malformed integer.
EnvProfiles ==
    { [x \in {} |-> ""],
      [DUAL_WRITE_TO_LEGACY |-> "false", DUAL_WRITE_TO_NEW |-> "0"],
      [DUAL_WRITE_ENABLED |-> "TRUE", DUAL_WRITE_FAIL_ON_LEGACY_ERROR |-> "yes",
       DUAL_WRITE_VALIDATE_SYNC |-> "off", DUAL_WRITE_SYNC_INTERVAL |-> "60",
       DUAL_WRITE_BATCH_SIZE |-> "abc"] }

\* Keyword arguments update_settings is called with: both writers off; a
\* known field with an unknown name; the name of a method.
UpdateInputs ==
    { [write_to_legacy |-> FALSE, write_to_new |-> FALSE],
      [batch_size |-> 50, bogus |-> TRUE],
      [to_dict |-> "shadowed"] }

\* The service has no entry in _settings_cache.
NotLoaded == [loaded |-> FALSE]

Loaded(c, s) == c[s] # NotLoaded

NeedsLoadAlways(c, s) == TRUE

\* get_settings, line 100: if service_name not in self._settings_cache
NeedsLoad(c, s) == ~Loaded(c, s)

\* get_settings, lines 100-104: the cache after the call.
CacheAfterGet(c, e, s) ==
    IF NeedsLoad(c, s) THEN [c EXCEPT ![s] = FromEnv(e[s])] ELSE c

\* update_settings, line 112: hasattr(current_settings, key)
HasAttr(st, key) == key \in DOMAIN st

\* update_settings, lines 111-116: setattr for every key the object has,
\* a warning for the others.
ApplyKwargs(st, kw) ==
    [a \in DOMAIN st |->
        IF a \in DOMAIN kw /\ HasAttr(st, a) THEN kw[a] ELSE st[a]]

\* update_settings, lines 108-116: the cache after the call.
CacheAfterUpdate(c, e, s, kw) ==
    LET c1 == CacheAfterGet(c, e, s)
    IN  [c1 EXCEPT ![s] = ApplyKwargs(c1[s], kw)]

NewOnlyKwargsWrongFlag ==
    [write_to_legacy |-> FALSE, write_to_new |-> TRUE,
     fail_on_new_error |-> FALSE]

\* switch_to_new_db_only, lines 130-135
NewOnlyKwargs ==
    [write_to_legacy |-> FALSE, write_to_new |-> TRUE,
     fail_on_legacy_error |-> FALSE]

\* A switch to the legacy store that turns both writers off.
LegacyOnlyKwargsNoWriter ==
    [write_to_legacy |-> FALSE, write_to_new |-> FALSE,
     fail_on_new_error |-> FALSE]

\* switch_to_legacy_db_only, lines 140-145
LegacyOnlyKwargs ==
    [write_to_legacy |-> TRUE, write_to_new |-> FALSE,
     fail_on_new_error |-> FALSE]

\* CartDualWriteManager.__init__, lines 40-48: the DualWriteConfig made from
\* the values the settings hold at construction.
ConfigFromSettings(st) ==
    [enabled |-> st.enabled, write_to_legacy |-> st.write_to_legacy,
     write_to_new |-> st.write_to_new, validate_sync |-> st.validate_sync,
     fail_on_legacy_error |-> st.fail_on_legacy_error,
     fail_on_new_error |-> st.fail_on_new_error]

\* ------------------------------------------------- the Sync Validator
\* Column values as the drivers return them. t is the Python type: null
\* (None), num (int or float, n in thousandths), dec (decimal.Decimal, n in
\* thousandths), str (s, a sequence of characters), dt (datetime, n seconds
\* and u microseconds).
Null == [t |-> "null", n |-> 0, u |-> 0, s |-> <<>>]

Num(n) == [t |-> "num", n |-> n, u |-> 0, s |-> <<>>]

Dec(n) == [t |-> "dec", n |-> n, u |-> 0, s |-> <<>>]

Str(s) == [t |-> "str", n |-> 0, u |-> 0, s |-> s]

Dt(sec, usec) == [t |-> "dt", n |-> sec, u |-> usec, s |-> <<>>]

RECURSIVE LStrip(_)
LStrip(s) == IF s # <<>> /\ Head(s) = " " THEN LStrip(Tail(s)) ELSE s

RECURSIVE RStrip(_)
RStrip(s) ==
    IF s # <<>> /\ s[Len(s)] = " " THEN RStrip(SubSeq(s, 1, Len(s) - 1))
    ELSE s

\* str.strip()
Strip(s) == RStrip(LStrip(s))

\* round(float(value), 2) on thousandths: the nearest hundredth. The stored
\* numbers have no thousandth digit 5, where the binary float decides.
Round2(n) == ((n + 5) \div 10) * 10

\* _normalize_value with a coercion of blank strings to None.
NormalizeBlankAsNull(v) ==
    CASE v.t = "null" -> v
      [] v.t = "dt"   -> [v EXCEPT !.u = 0]
      [] v.t = "num"  -> [v EXCEPT !.n = Round2(v.n)]
      [] v.t = "str"  -> IF Strip(v.s) = <<>> THEN Null
                         ELSE [v EXCEPT !.s = Strip(v.s)]
      [] OTHER        -> v

\* _normalize_value: a Decimal is neither float nor int and is returned as
\* it is.
Normalize(v) ==
    CASE v.t = "null" -> v
      [] v.t = "dt"   -> [v EXCEPT !.u = 0]
      [] v.t = "num"  -> [v EXCEPT !.n = Round2(v.n)]
      [] v.t = "str"  -> [v EXCEPT !.s = Strip(v.s)]
      [] OTHER        -> v

\* A float rounded to two decimals has exactly its decimal value only when
\* that is a multiple of 0.25.
ExactFloat(n) == n % 250 = 0

\* Python's == on two normalized values: values of different types are
\* unequal, except a float and a Decimal of exactly the same value.
PyEq(a, b) ==
    IF a.t = b.t THEN a = b
    ELSE IF {a.t, b.t} = {"num", "dec"} THEN a.n = b.n /\ ExactFloat(a.n)
    ELSE FALSE

\* Entity ids given to the validator, and the one validate_entity_sync is
\* called for.
EntityIds == {"u1", "u2"}

TheEntity == "u1"

\* Columns of the entity's row; either store may lack a column.
FieldNames == {"quantity", "updated_at"}

QuantityValues ==
    {Null, Num(0), Num(2000), Num(3000), Num(1231), Num(1234), Num(1236),
     Dec(1231), Dec(1234), Dec(3000),
     Str(<<>>), Str(<<" ">>), Str(<<"a">>), Str(<<"a", " ">>)}

UpdatedAtValues == {Null, Dt(10, 0), Dt(10, 5), Dt(11, 0)}

ColumnValues(f) == IF f = "quantity" THEN QuantityValues ELSE UpdatedAtValues

\* dict(row._mapping) of a fetched row.
Rows ==
    UNION {{r \in [cols -> QuantityValues \cup UpdatedAtValues] :
               \A f \in cols : r[f] \in ColumnValues(f)} :
           cols \in (SUBSET FieldNames) \ {{}}}

\* What _fetch_entity_data returns: None, or the row as a dict.
Absent == [present |-> FALSE, data |-> [f \in {} |-> Null]]

Snapshots == {Absent} \cup {[present |-> TRUE, data |-> r] : r \in Rows}

\* dict.get(field)
Get(row, f) == IF f \in DOMAIN row THEN row[f] ELSE Null

\* error_message: None, the existence mismatch, or a validation error.
NoMessage == [kind |-> "none", new_db |-> FALSE, legacy_db |-> FALSE]

ValidationError ==
    [kind |-> "validation_error", new_db |-> FALSE, legacy_db |-> FALSE]

\* The message of an existence mismatch left unset.
ExistenceMessageUnset(n, l) == NoMessage

\* f"Entity exists in only one database: new_db=..., legacy_db=..."
ExistenceMessage(n, l) ==
    [kind |-> "only_one", new_db |-> n.present, legacy_db |-> l.present]

\* SyncValidationResult.__init__
SyncValidationResult(entity_id) ==
    [entity_id |-> entity_id, is_synchronized |-> FALSE, differences |-> <<>>,
     new_db_data |-> Absent, legacy_db_data |-> Absent,
     error_message |-> NoMessage]

\* No call has returned yet.
NoResult == [returned |-> FALSE]

\* A try block around the first fetch only.
CaughtNewOnly(fault) == fault = "new"

\* Lines 82-110: both fetches are inside the try, and except Exception
\* catches what either raises.
Caught(fault) == fault \in {"new", "legacy"}

\* A fetch that consumes the row it reads.
RowAfterFetchConsumed(row) == Absent

\* _fetch_entity_data executes the query in a session that is closed
\* without a commit: the store keeps its row.
RowAfterFetch(row) == row

\* for field in all_fields: the fields of S in this process's order.
OrderOf(h, S) == SelectSeq(h, LAMBDA f : f \in S)

\* SyncValidationResult.add_difference: the entry it appends.
DiffEntry(field, new_value, legacy_value) ==
    [field |-> field, new_db_value |-> new_value,
     legacy_db_value |-> legacy_value]

\* all_fields taken from the new row only.
AllFieldsNewOnly(n, l) == DOMAIN n

\* all_fields of _compare_entity_data
AllFields(n, l) == DOMAIN n \cup DOMAIN l

\* The orders in which a set of fields can be iterated.
IterationOrders(S) ==
    {o \in [1 .. Cardinality(S) -> S] :
        \A i, j \in 1 .. Cardinality(S) : i # j => o[i] # o[j]}

\* new_normalized != legacy_normalized
Differs(n, l, f) == ~PyEq(Normalize(Get(n, f)), Normalize(Get(l, f)))

\* _compare_entity_data, the fields visited in the given order.
CompareEntityData(n, l, ignore, order, r) ==
    LET d == SelectSeq(order, LAMBDA f : f \notin ignore /\ Differs(n, l, f))
    IN  [r EXCEPT
           !.differences = r.differences \o
               [i \in 1 .. Len(d) |-> DiffEntry(d[i], Get(n, d[i]), Get(l, d[i]))],
           !.is_synchronized = (Len(d) = 0)]

\* The both-absent branch without its assignment.
AbsentResultUnchanged(r) == r

\* Line 96: both rows absent.
AbsentResult(r) == [r EXCEPT !.is_synchronized = TRUE]

\* validate_entity_sync: the result for the two fetched snapshots.
ResultOf(entity_id, n, l, ignore, fault, order) ==
    IF fault # "none"
    THEN [SyncValidationResult(entity_id) EXCEPT
             !.error_message = ValidationError]
    ELSE LET r == [SyncValidationResult(entity_id) EXCEPT
                      !.new_db_data = n, !.legacy_db_data = l]
         IN  IF ~n.present /\ ~l.present THEN AbsentResult(r)
             ELSE IF ~n.present \/ ~l.present
                  THEN [r EXCEPT !.error_message = ExistenceMessage(n, l)]
                  ELSE CompareEntityData(n.data, l.data, ignore, order, r)

\* No validate_entity_sync call has been made; no row in either store.
ValIdle ==
    /\ new_db_row = Absent
    /\ legacy_db_row = Absent
    /\ ignore_fields = {}
    /\ fetch_fault = "none"
    /\ sync_result = NoResult
    /\ sync_raised = None
    /\ hash_order = <<"quantity", "updated_at">>
    /\ repeated = FALSE

\* ------------------------------------------------- further components: data
\* Rows of the entities a batch is validated on.
BatchSnapshots ==
    {Absent,
     [present |-> TRUE, data |-> [f \in {"quantity"} |-> Num(2000)]],
     [present |-> TRUE, data |-> [f \in {"quantity"} |-> Num(3000)]]}

\* entity_ids of a batch, and which fetch fails for each position.
BatchInputs ==
    UNION {[1 .. k -> EntityIds] : k \in 0 .. MaxBatch}

FetchFaults == {"none", "new", "legacy"}

\* The result validate_entity_sync returns for one id of the batch.
EntityResult(id, fault, new_rows, legacy_rows, ignore, h) ==
    ResultOf(id, new_rows[id], legacy_rows[id], ignore, fault,
             OrderOf(h, IF new_rows[id].present /\ legacy_rows[id].present
                        THEN AllFields(new_rows[id].data, legacy_rows[id].data)
                        ELSE {}))

\* A loop that stops at the first unsynchronized result.
BatchResultsShortCircuit(ids, faults, new_rows, legacy_rows, ignore, h) ==
    LET all == [i \in 1 .. Len(ids) |->
                   EntityResult(ids[i], faults[i], new_rows, legacy_rows,
                                ignore, h)]
        stops == {i \in 1 .. Len(ids) : ~all[i].is_synchronized}
    IN  IF stops = {} THEN all
        ELSE SubSeq(all, 1, CHOOSE i \in stops : \A j \in stops : i <= j)

\* validate_batch_sync: one validate_entity_sync per id, appended in order.
BatchResults(ids, faults, new_rows, legacy_rows, ignore, h) ==
    [i \in 1 .. Len(ids) |->
        EntityResult(ids[i], faults[i], new_rows, legacy_rows, ignore, h)]

\* No batch has been validated; no entity has a row.
BatchIdle ==
    /\ new_db_rows = [id \in EntityIds |-> Absent]
    /\ legacy_db_rows = [id \in EntityIds |-> Absent]
    /\ batch_ids = <<>>
    /\ batch_faults = <<>>
    /\ batch_ignore = {}
    /\ batch_results = <<>>
    /\ batch_calls = 0

\* Length of the common_issues list: sorted(...)[:10].
TopIssues == 10

\* Field names appearing in the differences of the results reported on,
\* one more than common_issues holds.
ReportFields ==
    <<"f01", "f02", "f03", "f04", "f05", "f06", "f07", "f08", "f09", "f10",
      "f11">>

\* A validation result differing in the given fields.
Differing(entity_id, fields) ==
    [SyncValidationResult(entity_id) EXCEPT
        !.differences = [i \in 1 .. Len(fields) |->
                            DiffEntry(fields[i], Num(3000), Num(2000))]]

\* The validation results reports are generated from: synchronized,
\* differing in every field, in one, in two, an existence mismatch and a
\* validation error.
ReportResults ==
    {[SyncValidationResult("u1") EXCEPT !.is_synchronized = TRUE],
     Differing("u1", ReportFields),
     Differing("u2", <<"f11">>),
     Differing("u2", <<"f11", "f02">>),
     [SyncValidationResult("u1") EXCEPT
         !.error_message =
             [kind |-> "only_one", new_db |-> TRUE, legacy_db |-> FALSE]],
     [SyncValidationResult("u2") EXCEPT !.error_message = ValidationError]}

ReportInputs == UNION {[1 .. k -> ReportResults] : k \in 0 .. MaxResults}

\* The difference fields of all results, in the order the loops of lines
\* 212-213 visit them.
RECURSIVE DiffFields(_)
DiffFields(rs) ==
    IF rs = <<>> THEN <<>>
    ELSE [i \in 1 .. Len(Head(rs).differences) |->
             Head(rs).differences[i].field] \o DiffFields(Tail(rs))

\* field_differences: per field, the number of differences naming it.
FieldDifferences(rs) ==
    LET fs == DiffFields(rs)
    IN  [f \in {fs[i] : i \in DOMAIN fs} |->
            Cardinality({i \in DOMAIN fs : fs[i] = f})]

\* The position at which the field was inserted into field_differences.
FirstSeen(rs, f) ==
    LET fs == DiffFields(rs)
    IN  CHOOSE i \in DOMAIN fs :
            fs[i] = f /\ \A j \in DOMAIN fs : fs[j] = f => i <= j

\* The sort without reverse=True.
RanksAboveAscending(rs, g, f) ==
    LET fd == FieldDifferences(rs)
    IN  \/ fd[g] < fd[f]
        \/ fd[g] = fd[f] /\ FirstSeen(rs, g) < FirstSeen(rs, f)

\* sorted(..., key=count, reverse=True), a stable sort: g comes before f.
RanksAbove(rs, g, f) ==
    LET fd == FieldDifferences(rs)
    IN  \/ fd[g] > fd[f]
        \/ fd[g] = fd[f] /\ FirstSeen(rs, g) < FirstSeen(rs, f)

\* common_issues: the (field, count) items sorted, the first TopIssues.
CommonIssues(rs) ==
    LET fd == FieldDifferences(rs)
        sorted == [i \in 1 .. Cardinality(DOMAIN fd) |->
                      CHOOSE f \in DOMAIN fd :
                          Cardinality({g \in DOMAIN fd : RanksAbove(rs, g, f)})
                              = i - 1]
        n == IF Len(sorted) < TopIssues THEN Len(sorted) ELSE TopIssues
    IN  [i \in 1 .. n |-> [field |-> sorted[i], count |-> fd[sorted[i]]]]

\* unsynchronized_entities
UnsynchronizedEntities(rs) ==
    LET us == SelectSeq(rs, LAMBDA r : ~r.is_synchronized)
    IN  [i \in 1 .. Len(us) |->
            [entity_id |-> us[i].entity_id,
             difference_count |-> Len(us[i].differences),
             error_message |-> us[i].error_message]]

\* generate_sync_report; sync_percentage is the fraction <<num, den>>.
SyncReport(rs) ==
    LET total_entities == Len(rs)
        synchronized_count ==
            Cardinality({i \in DOMAIN rs : rs[i].is_synchronized})
        error_count ==
            Cardinality({i \in DOMAIN rs : rs[i].error_message # NoMessage})
    IN  [summary |->
            [total_entities |-> total_entities,
             synchronized_count |-> synchronized_count,
             unsynchronized_count |-> total_entities - synchronized_count,
             error_count |-> error_count,
             sync_percentage |->
                 IF total_entities > 0
                 THEN <<synchronized_count * 100, total_entities>>
                 ELSE <<0, 1>>],
         field_differences |-> FieldDifferences(rs),
         common_issues |-> CommonIssues(rs),
         unsynchronized_entities |-> UnsynchronizedEntities(rs)]

\* No report has been generated.
NoReport == [generated |-> FALSE]

ReportIdle ==
    /\ validation_results = <<>>
    /\ report = NoReport

\* SyncMetrics keeps the last 100 errors: validation_errors[-100:].
ErrorCap == 100

\* A cut that keeps the oldest entries.
KeepFirst(errors) ==
    IF Len(errors) <= ErrorCap THEN errors ELSE SubSeq(errors, 1, ErrorCap)

\* self.validation_errors[-100:]
KeepLast(errors) ==
    IF Len(errors) <= ErrorCap THEN errors
    ELSE SubSeq(errors, Len(errors) - ErrorCap + 1, Len(errors))

\* bool(error_message) of the argument kinds: no message, a message.
MessageKinds == {"none", "text"}

\* SyncMetrics.__init__
MetricsIdle ==
    /\ validation_count = 0
    /\ sync_success_count = 0
    /\ sync_failure_count = 0
    /\ validation_errors = <<>>
    /\ recorded = <<>>
    /\ records = 0

\* How one store's check of health_check can end: nothing raises; opening
\* the session or SELECT 1 raises; the session's close raises after the
\* query succeeded.
CheckFaults == {"none", "execute", "close"}

\* The entry of health_status for a store whose check ended this way. A
\* close that raises overwrites the 'healthy' already stored.
StatusOf(fault) ==
    IF fault = "none" THEN [status |-> "healthy", error |-> None]
    ELSE [status |-> "unhealthy", error |-> fault]

\* The initial entry of health_status.
UnknownStatus == [status |-> "unknown", error |-> None]

\* A legacy check inside the try block of the new check.
LegacyCheckedIfNewHealthy(new_fault) == new_fault = "none"

\* Lines 261-268: the legacy check has its own try block.
LegacyChecked(new_fault) == TRUE

\* health_check: the dictionary it returns.
HealthStatus(cfg, new_fault, legacy_fault) ==
    [new_db |-> StatusOf(new_fault),
     legacy_db |-> IF LegacyChecked(new_fault) THEN StatusOf(legacy_fault)
                   ELSE UnknownStatus,
     dual_write_config |-> cfg]

\* No health_check has returned yet.
NoStatus == [checked |-> FALSE]

\* How engine.dispose() can end.
DisposeOutcomes == {"ok", "raise"}

\* Lines 274-276: legacy_engine.dispose() follows new_engine.dispose() in
\* one try block, so it is reached only when the first returns.
LegacyDisposeReached(new_outcome) == new_outcome = "ok"

\* A pool after dispose() was called on its engine.
PoolAfterDispose(pool, outcome) == IF outcome = "ok" THEN "disposed" ELSE pool

\* BaseDualWriteManager.__init__: both engines with their pools.
ConnIdle ==
    /\ new_pool = "open"
    /\ legacy_pool = "open"
    /\ dispose_calls = <<>>
    /\ dispose_raised = {}
    /\ closed = FALSE
    /\ close_raised = None
    /\ health_status = NoStatus
    /\ health_raised = None
    /\ check_faults = <<"none", "none">>

\* dual_write calls made on one coordinator while others are in flight.
CallIds == {"a", "b"}

Stores == {"new", "legacy"}

\* A session kept on the coordinator and handed to every call.
SessionForShared(ss, st) ==
    IF \E i \in DOMAIN ss : ss[i].store = st /\ ss[i].state = "open"
    THEN CHOOSE i \in DOMAIN ss : ss[i].store = st /\ ss[i].state = "open"
    ELSE Len(ss) + 1

\* self.new_session_factory() / self.legacy_session_factory(): each
\* evaluation of the async with makes a new AsyncSession.
SessionFor(ss, st) == Len(ss) + 1

\* One result object kept on the coordinator.
ResultObjectShared(heap) == 1

\* result = DualWriteResult(): a new object for each call.
ResultObject(heap) == Len(heap) + 1

\* The object heap with object i set to v; i is new or an object of it.
Put(heap, i, v) ==
    IF i <= Len(heap) THEN [heap EXCEPT ![i] = v] ELSE Append(heap, v)

\* A success that marks both stores.
WithSuccessBoth(r, st) ==
    [r EXCEPT !.new_db_success = TRUE, !.legacy_db_success = TRUE]

\* result.new_db_success = True / result.legacy_db_success = True
WithSuccess(r, st) ==
    IF st = "new" THEN [r EXCEPT !.new_db_success = TRUE]
    ELSE [r EXCEPT !.legacy_db_success = TRUE]

\* result.new_db_error = e / result.legacy_db_error = e
WithError(r, st, e) ==
    IF st = "new" THEN [r EXCEPT !.new_db_error = e]
    ELSE [r EXCEPT !.legacy_db_error = e]

\* No dual_write call has started.
ConcIdle ==
    /\ c_pc = [c \in CallIds |-> "idle"]
    /\ c_result = [c \in CallIds |-> 0]
    /\ c_raised = [c \in CallIds |-> None]
    /\ results = <<>>
    /\ t_pc = [c \in CallIds |-> [st \in Stores |-> "none"]]
    /\ t_exc = [c \in CallIds |-> [st \in Stores |-> None]]
    /\ t_session = [c \in CallIds |-> [st \in Stores |-> 0]]
    /\ sessions = <<>>

\* User ids create_cart is called with.
CartUserIds == {"u1", "u2"}

\* The users tables a store starts with: u1 has a row, u2 may have none.
UsersTables == {{"u1"}, CartUserIds}

\* How a store answers during one create_cart call: it works, or the
\* statements sent to it raise.
StoreFaults == {"none", "fail"}

\* The rows of a carts table with this user_id, in insertion order.
CartsOf(rows, u) == SelectSeq(rows, LAMBDA r : r.user_id = u)

\* An operation that inserts without looking for the user's cart.
HasCartNever(rows, u) == FALSE

\* create_cart, lines 63-67 and 75-80: the operation's SELECT by user_id
\* finds a cart.
HasCart(rows, u) == CartsOf(rows, u) # <<>>

\* models/cart.py, line 13: carts.user_id is NOT NULL, UNIQUE and references
\* users.uid; the INSERT is rejected when the user has no users row or has a
\* cart already.
Rejected(users, rows, u) == u \notin users \/ CartsOf(rows, u) # <<>>

\* What a store operation that did not run, or ran against a store that
\* raises, leaves: the table and its id sequence as they were.
Untouched(rows, seq, e) ==
    [rows |-> rows, seq |-> seq, error |-> e, inserted |-> FALSE]

\* create_cart, lines 61-88, with the commit of lines 203 / 221: one store's
\* operation.  An existing cart ends it at once; otherwise a row is inserted
\* with the next value of the id sequence, which is used up even when the
\* INSERT is rejected.
CreateCartIn(users, rows, seq, u, fault, at) ==
    IF fault = "fail" THEN Untouched(rows, seq, "op_error")
    ELSE IF HasCart(rows, u) THEN Untouched(rows, seq, None)
    ELSE IF Rejected(users, rows, u)
         THEN Untouched(rows, seq + 1, "integrity_error")
         ELSE [rows |-> Append(rows, [id |-> seq + 1, user_id |-> u,
                                      created_at |-> at]),
               seq |-> seq + 1, error |-> None, inserted |-> TRUE]

\* validate_cart_sync, lines 308-322: SELECT * FROM carts WHERE user_id in
\* both stores, compared by validate_entity_sync with updated_at ignored.  A
\* fetch that raises gives False.
ValidateCartSync(new_rows, legacy_rows, u, new_fault, legacy_fault) ==
    LET n == CartsOf(new_rows, u)
        l == CartsOf(legacy_rows, u)
    IN  IF new_fault # "none" \/ legacy_fault # "none" THEN FALSE
        ELSE IF n = <<>> /\ l = <<>> THEN TRUE
        ELSE IF n = <<>> \/ l = <<>> THEN FALSE
        ELSE n[1].id = l[1].id /\ n[1].created_at = l[1].created_at

\* The last two entries of a log.
LastTwo(log) == IF Len(log) <= 2 THEN log ELSE SubSeq(log, Len(log) - 1, Len(log))

\* Both carts tables are empty and create_cart has not been called.
CartIdle ==
    /\ cart_users = [st \in Stores |-> CartUserIds]
    /\ carts = [st \in Stores |-> <<>>]
    /\ cart_seq = [st \in Stores |-> 0]
    /\ cart_calls = 0
    /\ cart_log = <<>>

\* The variables of one prefix whose loading is followed, with the field
\* each one sets.
FieldOfKey ==
    ("DUAL_WRITE_ENABLED" :> "enabled")
    @@ ("DUAL_WRITE_FAIL_ON_LEGACY_ERROR" :> "fail_on_legacy_error")
    @@ ("DUAL_WRITE_SYNC_INTERVAL" :> "sync_validation_interval")
    @@ ("DUAL_WRITE_BATCH_SIZE" :> "batch_size")

\* The variable is not in os.environ.
Unset == "<unset>"

\* Strings a variable is set to: boolean words, an integer, and strings
\* that are neither.
RawValues == {"true", "False", "no", "60", "maybe", "abc"}

\* DualWriteSettings, lines 17-37: the default of every field.
SettingsDefaults ==
    [enabled |-> TRUE, write_to_legacy |-> TRUE, write_to_new |-> TRUE,
     fail_on_legacy_error |-> FALSE, fail_on_new_error |-> TRUE,
     validate_sync |-> TRUE, sync_validation_interval |-> 300,
     async_legacy_writes |-> TRUE, batch_size |-> 100,
     log_all_operations |-> FALSE, log_errors_only |-> TRUE,
     metrics_enabled |-> TRUE]

\* os.environ as from_env reads it: the variables that are set.
SetVariables(raw) ==
    [k \in {x \in DOMAIN raw : raw[x] # Unset} |-> raw[k]]

\* from_env has not been called.
EnvIdle ==
    /\ environ = [k \in DOMAIN FieldOfKey |-> Unset]
    /\ from_env_result = NotLoaded
    /\ from_env_raised = None

\* Strings a flag of the service settings holds: config.py declares the
\* dual-write flags as str, so the environment's text is kept as it is.
FlagStrings == {"true", "false", ""}

\* The flags of the service settings that reach the DualWriteConfig.
ConfigFlags ==
    {"enabled", "write_to_legacy", "write_to_new", "validate_sync",
     "fail_on_legacy_error", "fail_on_new_error"}

\* bool(v) of a str, as if / not / and apply it: only the empty string is
\* false.
TruthyStr(v) == v # ""

\* The configuration dual_write acts on when its flags hold these strings.
AsTested(cfg) == [f \in DOMAIN cfg |-> TruthyStr(cfg[f])]

\* No coordinator was created.
NoManager == [created |-> FALSE]

\* No dual_write call was made on the service's coordinator.
NoOutcome == [called |-> FALSE]

\* The service has not started.
SvcIdle ==
    /\ app_settings = [f \in ConfigFlags |-> "true"]
    /\ legacy_database_url = ""
    /\ dual_write_manager = NoManager
    /\ svc_started = FALSE
    /\ svc_outcome = NoOutcome

\* The flags the cut-over operations deal with.
CutoverFlags ==
    {"enabled", "write_to_legacy", "write_to_new", "fail_on_legacy_error",
     "fail_on_new_error"}

\* The settings objects a service can hold: any values of the cut-over
\* flags, the other fields at their defaults.
AnySettings ==
    {[f \in DOMAIN SettingsDefaults |->
         IF f \in CutoverFlags THEN b[f] ELSE SettingsDefaults[f]] :
       b \in [CutoverFlags -> BOOLEAN]}

\* The keyword arguments each cut-over operation gives update_settings.
KwargsOf(op) ==
    IF op = "disable_dual_write" THEN [enabled |-> FALSE]
    ELSE IF op = "enable_dual_write" THEN [enabled |-> TRUE]
    ELSE IF op = "switch_to_new_db_only" THEN NewOnlyKwargs
    ELSE LegacyOnlyKwargs

CutoverOps ==
    {"disable_dual_write", "enable_dual_write", "switch_to_new_db_only",
     "switch_to_legacy_db_only"}

\* No cut-over operation has been applied.
SwitchIdle ==
    /\ initial_settings = SettingsDefaults
    /\ current_settings = SettingsDefaults
    /\ switch_trace = <<>>

\* The store has no users row for the uid.
NoUser == [present |-> FALSE]

\* Rows of users for the uid: an updatable column (email stands for email,
\* phone_number, display_name, photo_url, role, is_active) and the two
\* timestamps, in seconds.
UserRows ==
    [present : {TRUE}, email : {"a@x", "b@x"}, created_at : {1, 2},
     updated_at : {1, 2}]

\* NOW() of the store at the time of a sync_entity call, later than every
\* timestamp already stored.
SyncNow == 3

Directions == {"new_to_legacy", "legacy_to_new"}

SourceOf(direction) == IF direction = "new_to_legacy" THEN "new" ELSE "legacy"

DestinationOf(direction) ==
    IF direction = "new_to_legacy" THEN "legacy" ELSE "new"

\* sync_entity, lines 207-219 and 236-248: INSERT ... ON CONFLICT (uid) DO
\* UPDATE.  A missing row is inserted with every column of the source row;
\* an existing row gets the source's data columns and updated_at = NOW(),
\* and keeps its created_at.
Upsert(dst, src) ==
    IF dst = NoUser THEN src
    ELSE [dst EXCEPT !.email = src.email, !.updated_at = SyncNow]

\* validate_user_sync, lines 177-191: validate_entity_sync on SELECT * FROM
\* users WHERE uid, with updated_at ignored.
UserSynchronized(n, l) ==
    IF n = NoUser /\ l = NoUser THEN TRUE
    ELSE IF n = NoUser \/ l = NoUser THEN FALSE
    ELSE n.email = l.email /\ n.created_at = l.created_at

\* sync_entity and validate_user_sync have not been called.
AuthIdle ==
    /\ auth_users = [st \in Stores |-> NoUser]
    /\ sync_direction = "none"
    /\ sync_returned = "none"
    /\ validate_returned = "none"

\* Nothing has happened yet in the further components.
ExtIdle ==
    /\ BatchIdle
    /\ ReportIdle
    /\ MetricsIdle
    /\ ConnIdle
    /\ ConcIdle
    /\ CartIdle
    /\ EnvIdle
    /\ SvcIdle /\ SwitchIdle /\ AuthIdle

\* No Config Manager call has been made; the coordinator exists already.
CfgIdle ==
    /\ constructed = TRUE
    /\ cache = [s \in Services |-> NotLoaded]
    /\ env = [s \in Services |-> [x \in {} |-> ""]]
    /\ env_reads = [s \in Services |-> 0]
    /\ got = NotLoaded
    /\ last_op = <<"none", "none">>
    /\ ops = 0

\* The new-store task of the call, its session and its store.
new_side == <<new_pc, new_exc, new_session, new_pending, new_store>>

\* The legacy-store task of the call, its session and its store.
legacy_side == <<legacy_pc, legacy_exc, legacy_session, legacy_pending,
                 legacy_store>>

Settled(p) == p \in {"none", "done", "failed"}

\* BaseDualWriteManager.__init__: the config is fixed, no call is in flight,
\* both stores hold the same (possibly absent) row.
Init ==
    /\ config \in DualWriteConfig
    /\ pc = "idle"
    /\ calls = 0
    /\ quantity = 1
    /\ has_validation = FALSE
    /\ result = DualWriteResult
    /\ raised = None
    /\ new_pc = "none" /\ legacy_pc = "none"
    /\ new_exc = None /\ legacy_exc = None
    /\ new_session = "none" /\ legacy_session = "none"
    /\ new_pending = NoRow /\ legacy_pending = NoRow
    /\ new_store = NoRow /\ legacy_store = NoRow
    /\ validation_ran = FALSE
    /\ validation_outcome = "none"
    /\ commit_log = <<>>
    /\ new_store_before = NoRow /\ legacy_store_before = NoRow
    /\ orders_seen = {}
    /\ CfgIdle
    /\ ValIdle
    /\ ExtIdle

\* ------------------------------------------------------ failure policy
FailurePolicyOneFlag(cfg, r) ==
    IF cfg.fail_on_legacy_error /\ Truthy(r.new_db_error) THEN r.new_db_error
    ELSE IF cfg.fail_on_legacy_error /\ Truthy(r.legacy_db_error)
         THEN r.legacy_db_error
         ELSE None

FailurePolicyLegacyFirst(cfg, r) ==
    IF cfg.fail_on_legacy_error /\ Truthy(r.legacy_db_error)
    THEN r.legacy_db_error
    ELSE IF cfg.fail_on_new_error /\ Truthy(r.new_db_error)
         THEN r.new_db_error
         ELSE None

FailurePolicyIgnoresFlags(cfg, r) ==
    IF Truthy(r.new_db_error) THEN r.new_db_error
    ELSE IF Truthy(r.legacy_db_error) THEN r.legacy_db_error
         ELSE None

\* dual_write, lines 163-170: the exception the call raises after the writes
\* and the validation, None when it returns the result.  The new store is
\* looked at first.
FailurePolicy(cfg, r) ==
    IF cfg.fail_on_new_error /\ Truthy(r.new_db_error) THEN r.new_db_error
    ELSE IF cfg.fail_on_legacy_error /\ Truthy(r.legacy_db_error)
         THEN r.legacy_db_error
         ELSE None

\* dual_write, lines 163-173: raise the policy's exception or return result.
Finish(r) ==
    /\ raised' = FailurePolicy(config, r)
    /\ pc' = IF FailurePolicy(config, r) # None THEN "raised" ELSE "returned"

GatherFirstCompleted == Settled(new_pc) \/ Settled(legacy_pc)

\* asyncio.gather(*tasks, return_exceptions=True): the await resumes when
\* every task of the call has finished, by return or by exception.
GatherDone == Settled(new_pc) /\ Settled(legacy_pc)

\* lines 141-151: a task made by gather runs whenever the call is suspended
\* in the gather, whatever the other task is doing.
NewScheduled == pc = "gather"

LegacyScheduledAfterNew == pc = "gather" /\ Settled(new_pc)

LegacyScheduled == pc = "gather"

DisabledPathNever(cfg) == FALSE

\* line 135: if not self.config.enabled
DisabledPath(cfg) == ~cfg.enabled

StoreAfterCloseAutocommit(store, pending) ==
    IF pending # NoRow THEN pending ELSE store

\* Leaving the async with block closes the session: what the session holds
\* uncommitted is rolled back, the committed row stays as it is.
StoreAfterClose(store, pending) == store

\* The commit order a commit of store s completes, given the log so far.
Orders(log, s) ==
    IF log = <<>> THEN {}
    ELSE IF s = "new" THEN {"legacy_first"} ELSE {"new_first"}

\* ------------------------------------------------------------ the call
\* dual_write, lines 133-151, up to the first suspension: make the result,
\* take the disabled path or create the task of every enabled store.  Each
\* task opens its session and starts its operation before it first suspends.
DualWriteCall(q, hv) ==
    /\ constructed
    /\ pc \in {"idle", "returned", "raised"}
    /\ calls < MaxCalls
    /\ calls' = calls + 1
    /\ quantity' = q
    /\ has_validation' = hv
    /\ result' = DualWriteResult
    /\ raised' = None
    /\ new_exc' = None /\ legacy_exc' = None
    /\ new_pending' = NoRow /\ legacy_pending' = NoRow
    /\ validation_ran' = FALSE
    /\ validation_outcome' = "none"
    /\ commit_log' = <<>>
    /\ new_store_before' = new_store
    /\ legacy_store_before' = legacy_store
    /\ IF DisabledPath(config)
       THEN /\ pc' = "new_only"
            /\ new_pc' = "running" /\ new_session' = "open"
            /\ legacy_pc' = "none" /\ legacy_session' = "none"
       ELSE /\ pc' = "gather"
            /\ new_pc' = IF config.write_to_new THEN "running" ELSE "none"
            /\ new_session' = IF config.write_to_new THEN "open" ELSE "none"
            /\ legacy_pc' = IF config.write_to_legacy THEN "running" ELSE "none"
            /\ legacy_session' =
                   IF config.write_to_legacy THEN "open" ELSE "none"
    /\ UNCHANGED <<config, new_store, legacy_store, orders_seen, cfg_vars,
                   val_vars, ext_vars>>

\* --------------------------------------------- _execute_new_db_operation
\* line 201, await operation(session): the upsert of add_cart_item ends.  It
\* leaves the row image in the session, or raises (before or after the row
\* was put in the session).
NewOperation ==
    /\ NewScheduled /\ new_pc = "running"
    /\ \/ /\ new_pending' = quantity
          /\ new_pc' = "committing"
          /\ UNCHANGED new_exc
       \/ /\ new_pending' \in {NoRow, quantity}
          /\ new_pc' = "closing_err"
          /\ new_exc' = "new_op_error"
    /\ UNCHANGED <<call_frame, legacy_side, pc, result, raised, new_session,
                   new_store, validation_ran, validation_outcome,
                   commit_log, orders_seen>>

\* lines 202-204, await session.commit(): the transaction commits and the
\* success flag is set, or the commit raises and nothing is written.
NewCommit ==
    /\ NewScheduled /\ new_pc = "committing"
    /\ \/ /\ new_store' = new_pending
          /\ new_pending' = NoRow
          /\ result' = [result EXCEPT !.new_db_success = TRUE]
          /\ commit_log' = Append(commit_log, "new")
          /\ orders_seen' = orders_seen \cup Orders(commit_log, "new")
          /\ new_pc' = "closing_ok"
          /\ UNCHANGED new_exc
       \/ /\ new_pc' = "closing_err"
          /\ new_exc' = "new_commit_error"
          /\ UNCHANGED <<new_store, new_pending, result, commit_log,
                         orders_seen>>
    /\ UNCHANGED <<call_frame, legacy_side, pc, raised, new_session,
                   validation_ran, validation_outcome>>

\* lines 200 and 205-209: leaving the async with block closes the session; the
\* except clause then records the exception in the result (and re-raises it
\* into the gather when the store's fail-on-error flag is set).
NewClose ==
    /\ NewScheduled /\ new_pc \in {"closing_ok", "closing_err"}
    /\ new_session' = "closed"
    /\ new_store' = StoreAfterClose(new_store, new_pending)
    /\ new_pending' = NoRow
    /\ IF new_pc = "closing_ok"
       THEN new_pc' = "done" /\ UNCHANGED result
       ELSE /\ new_pc' = "failed"
            /\ result' = [result EXCEPT !.new_db_error = new_exc]
    /\ UNCHANGED <<call_frame, legacy_side, pc, raised, new_exc,
                   validation_ran, validation_outcome, commit_log,
                   orders_seen>>

\* ------------------------------------------ _execute_legacy_db_operation
\* line 219, await operation(session): the upsert of add_cart_item ends.  It
\* leaves the row image in the session, or raises (before or after the row
\* was put in the session).
LegacyOperation ==
    /\ LegacyScheduled /\ legacy_pc = "running"
    /\ \/ /\ legacy_pending' = quantity
          /\ legacy_pc' = "committing"
          /\ UNCHANGED legacy_exc
       \/ /\ legacy_pending' \in {NoRow, quantity}
          /\ legacy_pc' = "closing_err"
          /\ legacy_exc' = "legacy_op_error"
    /\ UNCHANGED <<call_frame, new_side, pc, result, raised, legacy_session,
                   legacy_store, validation_ran, validation_outcome,
                   commit_log, orders_seen>>

\* lines 220-222, await session.commit(): the transaction commits and the
\* success flag is set, or the commit raises and nothing is written.
LegacyCommit ==
    /\ LegacyScheduled /\ legacy_pc = "committing"
    /\ \/ /\ legacy_store' = legacy_pending
          /\ legacy_pending' = NoRow
          /\ result' = [result EXCEPT !.legacy_db_success = TRUE]
          /\ commit_log' = Append(commit_log, "legacy")
          /\ orders_seen' = orders_seen \cup Orders(commit_log, "legacy")
          /\ legacy_pc' = "closing_ok"
          /\ UNCHANGED legacy_exc
       \/ /\ legacy_pc' = "closing_err"
          /\ legacy_exc' = "legacy_commit_error"
          /\ UNCHANGED <<legacy_store, legacy_pending, result, commit_log,
                         orders_seen>>
    /\ UNCHANGED <<call_frame, new_side, pc, raised, legacy_session,
                   validation_ran, validation_outcome>>

\* lines 218 and 223-227: leaving the async with block closes the session; the
\* except clause then records the exception in the result (and re-raises it
\* into the gather when the store's fail-on-error flag is set).
LegacyClose ==
    /\ LegacyScheduled /\ legacy_pc \in {"closing_ok", "closing_err"}
    /\ legacy_session' = "closed"
    /\ legacy_store' = StoreAfterClose(legacy_store, legacy_pending)
    /\ legacy_pending' = NoRow
    /\ IF legacy_pc = "closing_ok"
       THEN legacy_pc' = "done" /\ UNCHANGED result
       ELSE /\ legacy_pc' = "failed"
            /\ result' = [result EXCEPT !.legacy_db_error = legacy_exc]
    /\ UNCHANGED <<call_frame, new_side, pc, raised, legacy_exc,
                   validation_ran, validation_outcome, commit_log,
                   orders_seen>>

\* ------------------------------------------------ _execute_new_db_only
\* line 183, await operation(session) on the disabled path.
NewOnlyOperation ==
    /\ pc = "new_only" /\ new_pc = "running"
    /\ \/ /\ new_pending' = quantity
          /\ new_pc' = "committing"
          /\ UNCHANGED new_exc
       \/ /\ new_pending' \in {NoRow, quantity}
          /\ new_pc' = "closing_err"
          /\ new_exc' = "new_op_error"
    /\ UNCHANGED <<call_frame, legacy_side, pc, result, raised, new_session,
                   new_store, validation_ran, validation_outcome,
                   commit_log, orders_seen>>

\* lines 184-185, await session.commit() on the disabled path.
NewOnlyCommit ==
    /\ pc = "new_only" /\ new_pc = "committing"
    /\ \/ /\ new_store' = new_pending
          /\ new_pending' = NoRow
          /\ result' = [result EXCEPT !.new_db_success = TRUE]
          /\ commit_log' = Append(commit_log, "new")
          /\ new_pc' = "closing_ok"
          /\ UNCHANGED new_exc
       \/ /\ new_pc' = "closing_err"
          /\ new_exc' = "new_commit_error"
          /\ UNCHANGED <<new_store, new_pending, result, commit_log>>
    /\ UNCHANGED <<call_frame, legacy_side, pc, raised, new_session,
                   validation_ran, validation_outcome, orders_seen>>

\* lines 182 and 186-191: the session closes; an exception is recorded and
\* re-raised whatever fail_on_new_error is, otherwise the result is returned.
NewOnlyClose ==
    /\ pc = "new_only" /\ new_pc \in {"closing_ok", "closing_err"}
    /\ new_session' = "closed"
    /\ new_store' = StoreAfterClose(new_store, new_pending)
    /\ new_pending' = NoRow
    /\ IF new_pc = "closing_ok"
       THEN /\ new_pc' = "done"
            /\ pc' = "returned"
            /\ UNCHANGED <<result, raised>>
       ELSE /\ new_pc' = "failed"
            /\ result' = [result EXCEPT !.new_db_error = new_exc]
            /\ raised' = new_exc
            /\ pc' = "raised"
    /\ UNCHANGED <<call_frame, legacy_side, new_exc, validation_ran,
                   validation_outcome, commit_log, orders_seen>>

\* ------------------------------------------- after the gather, dual_write
\* lines 151-154 (and 163-173 when there is nothing to validate): the gather
\* is over; the validation operation is invoked when validate_sync is set
\* and one was supplied, otherwise the failure policy is applied at once.
GatherJoin ==
    /\ pc = "gather" /\ GatherDone
    /\ IF config.validate_sync /\ has_validation
       THEN /\ pc' = "validating"
            /\ validation_ran' = TRUE
            /\ UNCHANGED raised
       ELSE /\ Finish(result)
            /\ UNCHANGED validation_ran
    /\ UNCHANGED <<call_frame, new_side, legacy_side, result,
                   validation_outcome, commit_log, orders_seen>>

\* What the validation operation can do: return True, return False, raise.
ValidationOutcomes == {"true", "false", "raise"}

SyncValidatedUnlessFalse(outcome) == outcome # "false"

\* lines 155-161: the value sync_validated gets for an outcome of the
\* validation operation; an exception is caught and gives False.
SyncValidated(outcome) == outcome = "true"

\* lines 155-173: the validation operation ends, sync_validated is recorded
\* and the failure policy is applied.
Validation(outcome) ==
    /\ pc = "validating"
    /\ validation_outcome' = outcome
    /\ result' = [result EXCEPT !.sync_validated = SyncValidated(outcome)]
    /\ Finish(result')
    /\ UNCHANGED <<call_frame, new_side, legacy_side, validation_ran,
                   commit_log, orders_seen>>

Next ==
    \/ \E q \in Quantities, hv \in BOOLEAN : DualWriteCall(q, hv)
    \/ NewOperation
    \/ NewCommit
    \/ NewClose
    \/ LegacyOperation
    \/ LegacyCommit
    \/ LegacyClose
    \/ NewOnlyOperation
    \/ NewOnlyCommit
    \/ NewOnlyClose
    \/ GatherJoin
    \/ \E o \in ValidationOutcomes : Validation(o)

Spec == Init /\ [][Next]_vars

\* The call is over: dual_write returned its result or raised.
Over == pc \in {"returned", "raised"}

TypeOK ==
    /\ config \in DualWriteConfig
    /\ pc \in {"idle", "new_only", "gather", "validating", "returned", "raised"}
    /\ calls \in 0 .. MaxCalls
    /\ new_store \in {NoRow} \cup Quantities
    /\ legacy_store \in {NoRow} \cup Quantities
    /\ raised \in {None} \cup NewErrors \cup LegacyErrors

\* ------------------------------------------ DualWriteConfigManager calls
\* get_settings, lines 98-104: how often the environment has been read.
ReadsAfterGet(c, r, s) ==
    IF NeedsLoad(c, s) THEN [r EXCEPT ![s] = @ + 1] ELSE r

\* get_settings(s), lines 98-104
GetSettings(s) ==
    /\ ops < MaxOps
    /\ ops' = ops + 1
    /\ cache' = CacheAfterGet(cache, env, s)
    /\ env_reads' = ReadsAfterGet(cache, env_reads, s)
    /\ got' = cache'[s]
    /\ last_op' = <<"get_settings", s>>
    /\ UNCHANGED <<dw_vars, val_vars, ext_vars, constructed, env>>

\* update_settings(s, **kw), lines 106-116, under the name of the call that
\* made it; it calls get_settings first.
Update(name, s, kw) ==
    /\ ops < MaxOps
    /\ ops' = ops + 1
    /\ cache' = CacheAfterUpdate(cache, env, s, kw)
    /\ env_reads' = ReadsAfterGet(cache, env_reads, s)
    /\ got' = cache'[s]
    /\ last_op' = <<name, s>>
    /\ UNCHANGED <<dw_vars, val_vars, ext_vars, constructed, env>>

\* update_settings(s, **kw), lines 106-116
UpdateSettings(s, kw) == Update("update_settings", s, kw)

\* disable_dual_write(s), lines 118-121
DisableDualWrite(s) == Update("disable_dual_write", s, [enabled |-> FALSE])

\* enable_dual_write(s), lines 123-126
EnableDualWrite(s) == Update("enable_dual_write", s, [enabled |-> TRUE])

\* switch_to_new_db_only(s), lines 128-136
SwitchToNewDbOnly(s) == Update("switch_to_new_db_only", s, NewOnlyKwargs)

\* switch_to_legacy_db_only(s), lines 138-146
SwitchToLegacyDbOnly(s) ==
    Update("switch_to_legacy_db_only", s, LegacyOnlyKwargs)

\* The environment of a service prefix is changed from outside the manager.
SetEnv(s, e) ==
    /\ ops < MaxOps
    /\ ops' = ops + 1
    /\ env[s] # e
    /\ env' = [env EXCEPT ![s] = e]
    /\ last_op' = <<"set_env", s>>
    /\ UNCHANGED <<dw_vars, val_vars, ext_vars, constructed, cache, env_reads, got>>

\* CartDualWriteManager(new_url, legacy_url, get_settings(CoordService)),
\* lines 38-55: the coordinator is built on the manager's settings object
\* of its service and copies the flags into a DualWriteConfig of its own.
Construct ==
    /\ ~constructed
    /\ constructed' = TRUE
    /\ cache' = CacheAfterGet(cache, env, CoordService)
    /\ env_reads' = ReadsAfterGet(cache, env_reads, CoordService)
    /\ got' = cache'[CoordService]
    /\ config' = ConfigFromSettings(cache'[CoordService])
    /\ UNCHANGED <<pc, calls, quantity, has_validation, result, raised,
                   new_pc, legacy_pc, new_exc, legacy_exc, new_session,
                   legacy_session, new_pending, legacy_pending, new_store,
                   legacy_store, validation_ran, validation_outcome,
                   commit_log, new_store_before, legacy_store_before,
                   orders_seen, env, last_op, ops, val_vars, ext_vars>>

\* No coordinator yet, no call made, both stores without the row.
DwIdle ==
    /\ config = ConfigFromSettings(FromEnv([x \in {} |-> ""]))
    /\ pc = "idle"
    /\ calls = 0
    /\ quantity = 1
    /\ has_validation = FALSE
    /\ result = DualWriteResult
    /\ raised = None
    /\ new_pc = "none" /\ legacy_pc = "none"
    /\ new_exc = None /\ legacy_exc = None
    /\ new_session = "none" /\ legacy_session = "none"
    /\ new_pending = NoRow /\ legacy_pending = NoRow
    /\ new_store = NoRow /\ legacy_store = NoRow
    /\ validation_ran = FALSE
    /\ validation_outcome = "none"
    /\ commit_log = <<>>
    /\ new_store_before = NoRow /\ legacy_store_before = NoRow
    /\ orders_seen = {}

\* DualWriteConfigManager.__init__, line 96: an empty cache, any environment.
InitCfg ==
    /\ DwIdle
    /\ ValIdle
    /\ ExtIdle
    /\ constructed = FALSE
    /\ cache = [s \in Services |-> NotLoaded]
    /\ env \in [Services -> EnvProfiles]
    /\ env_reads = [s \in Services |-> 0]
    /\ got = NotLoaded
    /\ last_op = <<"none", "none">>
    /\ ops = 0

NextCfg ==
    \/ \E s \in Services : GetSettings(s)
    \/ \E s \in Services, kw \in UpdateInputs : UpdateSettings(s, kw)
    \/ \E s \in Services : DisableDualWrite(s)
    \/ \E s \in Services : EnableDualWrite(s)
    \/ \E s \in Services : SwitchToNewDbOnly(s)
    \/ \E s \in Services : SwitchToLegacyDbOnly(s)
    \/ \E s \in Services, e \in EnvProfiles : SetEnv(s, e)

\* The Config Manager alone, called for two services.
SpecCfg == InitCfg /\ [][NextCfg]_vars

\* The service's environment is any profile; nothing is constructed yet.
InitCutover ==
    /\ DwIdle
    /\ ValIdle
    /\ ExtIdle
    /\ constructed = FALSE
    /\ cache = [s \in Services |-> NotLoaded]
    /\ env \in {e \in [Services -> EnvProfiles] :
                   \A s \in Services \ {CoordService} : e[s] = [x \in {} |-> ""]}
    /\ env_reads = [s \in Services |-> 0]
    /\ got = NotLoaded
    /\ last_op = <<"none", "none">>
    /\ ops = 0

NextCutover ==
    \/ Construct
    \/ DisableDualWrite(CoordService)
    \/ EnableDualWrite(CoordService)
    \/ SwitchToNewDbOnly(CoordService)
    \/ SwitchToLegacyDbOnly(CoordService)
    \/ Next

\* The coordinator of CoordService, built on the Config Manager's settings,
\* makes its calls while the manager's cut-over operations are used.
SpecCutover == InitCutover /\ [][NextCutover]_vars

\* ------------------------------------------------- the Sync Validator
\* validate_entity_sync(entity_id, ..., ignore_fields): the two fetches, of
\* which one may raise, then the comparison.
ValidateEntitySync(ignore, fault) ==
    /\ IF fault = "none" \/ Caught(fault)
       THEN /\ sync_result' =
                   ResultOf(TheEntity, new_db_row, legacy_db_row, ignore,
                            fault,
                            OrderOf(hash_order,
                                    IF new_db_row.present /\ legacy_db_row.present
                                    THEN AllFields(new_db_row.data,
                                                   legacy_db_row.data)
                                    ELSE {}))
            /\ sync_raised' = None
       ELSE /\ sync_result' = NoResult
            /\ sync_raised' = "fetch_error"
    /\ new_db_row' = RowAfterFetch(new_db_row)
    /\ legacy_db_row' =
           IF fault = "new" THEN legacy_db_row
           ELSE RowAfterFetch(legacy_db_row)
    /\ ignore_fields' = ignore
    /\ fetch_fault' = fault
    /\ repeated' = (/\ sync_result # NoResult \/ sync_raised # None
                    /\ ignore = ignore_fields
                    /\ fault = fetch_fault)
    /\ UNCHANGED <<hash_order, dw_vars, cfg_vars, ext_vars>>

\* The entity's row in each store is any row, or absent.
InitVal ==
    /\ DwIdle
    /\ CfgIdle
    /\ ExtIdle
    /\ new_db_row \in Snapshots
    /\ legacy_db_row \in Snapshots
    /\ ignore_fields = {}
    /\ fetch_fault = "none"
    /\ sync_result = NoResult
    /\ sync_raised = None
    /\ hash_order \in IterationOrders(FieldNames)
    /\ repeated = FALSE

NextVal ==
    \E ignore \in SUBSET FieldNames, fault \in {"none", "new", "legacy"} :
        ValidateEntitySync(ignore, fault)

\* The Sync Validator applied to one entity.
SpecVal == InitVal /\ [][NextVal]_vars

\* ------------------------------------------------- batch validation
\* validate_batch_sync(entity_ids, ..., ignore_fields)
ValidateBatchSync(ids, faults, ignore) ==
    /\ batch_ids' = ids
    /\ batch_faults' = faults
    /\ batch_ignore' = ignore
    /\ batch_results' = BatchResults(ids, faults, new_db_rows, legacy_db_rows,
                                     ignore, hash_order)
    /\ batch_calls' = 1
    /\ UNCHANGED <<new_db_rows, legacy_db_rows, batch_frame>>

InitBatch ==
    /\ DwIdle
    /\ CfgIdle
    /\ ValIdle
    /\ ReportIdle /\ MetricsIdle /\ ConnIdle /\ ConcIdle /\ CartIdle
    /\ EnvIdle /\ SvcIdle /\ SwitchIdle /\ AuthIdle
    /\ new_db_rows \in [EntityIds -> BatchSnapshots]
    /\ legacy_db_rows \in [EntityIds -> BatchSnapshots]
    /\ batch_ids = <<>>
    /\ batch_faults = <<>>
    /\ batch_ignore = {}
    /\ batch_results = <<>>
    /\ batch_calls = 0

NextBatch ==
    \E ids \in BatchInputs, ignore \in {{}, {"quantity"}} :
        \E faults \in [1 .. Len(ids) -> FetchFaults] :
            ValidateBatchSync(ids, faults, ignore)

\* validate_batch_sync applied to lists of entity ids.
SpecBatch == InitBatch /\ [][NextBatch]_vars

\* ------------------------------------------------- the sync report
\* generate_sync_report(validation_results)
GenerateSyncReport ==
    /\ report' = SyncReport(validation_results)
    /\ UNCHANGED <<validation_results, report_frame>>

\* The caller holds any list of validation results.
InitReport ==
    /\ DwIdle
    /\ CfgIdle
    /\ ValIdle
    /\ BatchIdle
    /\ MetricsIdle /\ ConnIdle /\ ConcIdle /\ CartIdle /\ EnvIdle
    /\ SvcIdle /\ SwitchIdle /\ AuthIdle
    /\ validation_results \in ReportInputs
    /\ report = NoReport

NextReport == GenerateSyncReport

\* generate_sync_report applied to lists of validation results.
SpecReport == InitReport /\ [][NextReport]_vars

\* ------------------------------------------------- SyncMetrics
\* record_validation(success, error_message). The stored string starts with
\* the time of the call; it is modelled by the number of the call.
RecordValidation(success, message) ==
    /\ records < MaxRecords
    /\ records' = records + 1
    /\ validation_count' = validation_count + 1
    /\ IF success
       THEN /\ sync_success_count' = sync_success_count + 1
            /\ UNCHANGED <<sync_failure_count, validation_errors, recorded>>
       ELSE /\ sync_failure_count' = sync_failure_count + 1
            /\ UNCHANGED sync_success_count
            /\ IF message # "none"
               THEN /\ validation_errors' =
                           KeepLast(Append(validation_errors,
                                           validation_count + 1))
                    /\ recorded' = Append(recorded, validation_count + 1)
               ELSE UNCHANGED <<validation_errors, recorded>>
    /\ UNCHANGED metrics_frame

\* The metrics object after any number, up to one more than the cap, of
\* failed validations recorded with a message.
InitMetrics ==
    /\ DwIdle
    /\ CfgIdle
    /\ ValIdle
    /\ BatchIdle
    /\ ReportIdle
    /\ ConnIdle /\ ConcIdle /\ CartIdle /\ EnvIdle /\ SvcIdle /\ SwitchIdle /\ AuthIdle
    /\ \E k \in 0 .. ErrorCap + 1 :
          /\ validation_count = k
          /\ sync_success_count = 0
          /\ sync_failure_count = k
          /\ recorded = [i \in 1 .. k |-> i]
          /\ validation_errors =
                 IF k <= ErrorCap THEN [i \in 1 .. k |-> i]
                 ELSE [i \in 1 .. ErrorCap |-> k - ErrorCap + i]
    /\ records = 0

NextMetrics ==
    \E success \in BOOLEAN, message \in MessageKinds :
        RecordValidation(success, message)

\* SyncMetrics under record_validation calls.
SpecMetrics == InitMetrics /\ [][NextMetrics]_vars

\* ------------------------------------------------- health_check and close
\* health_check()
HealthCheck(new_fault, legacy_fault) ==
    /\ health_status' = HealthStatus(config, new_fault, legacy_fault)
    /\ health_raised' = None
    /\ check_faults' = <<new_fault, legacy_fault>>
    /\ UNCHANGED <<new_pool, legacy_pool, dispose_calls, dispose_raised,
                   closed, close_raised, conn_frame>>

\* close(): what either dispose raises is caught and logged.
Close(new_outcome, legacy_outcome) ==
    /\ ~closed
    /\ closed' = TRUE
    /\ close_raised' = None
    /\ new_pool' = PoolAfterDispose(new_pool, new_outcome)
    /\ IF LegacyDisposeReached(new_outcome)
       THEN /\ legacy_pool' = PoolAfterDispose(legacy_pool, legacy_outcome)
            /\ dispose_calls' = <<"new", "legacy">>
            /\ dispose_raised' =
                   IF legacy_outcome = "raise" THEN {"legacy"} ELSE {}
       ELSE /\ legacy_pool' = legacy_pool
            /\ dispose_calls' = <<"new">>
            /\ dispose_raised' = {"new"}
    /\ UNCHANGED <<health_status, health_raised, check_faults, conn_frame>>

NextConn ==
    \/ \E nf \in CheckFaults, lf \in CheckFaults : HealthCheck(nf, lf)
    \/ \E nd \in DisposeOutcomes, ld \in DisposeOutcomes : Close(nd, ld)

\* A coordinator of any configuration, its health checked and closed.
SpecConn == Init /\ [][NextConn]_vars

\* ------------------------------------------------- concurrent dual_write
\* dual_write, lines 133-147: the result object is made and the store tasks
\* of the call are created.
CallStart(c) ==
    /\ c_pc[c] = "idle"
    /\ c_result' = [c_result EXCEPT ![c] = ResultObject(results)]
    /\ results' = Put(results, ResultObject(results), DualWriteResult)
    /\ IF DisabledPath(config)
       THEN /\ c_pc' = [c_pc EXCEPT ![c] = "new_only"]
            /\ t_pc' = [t_pc EXCEPT ![c] =
                            [st \in Stores |->
                                IF st = "new" THEN "scheduled" ELSE "none"]]
       ELSE /\ c_pc' = [c_pc EXCEPT ![c] = "gather"]
            /\ t_pc' = [t_pc EXCEPT ![c] =
                            [st \in Stores |->
                                IF (st = "new" /\ config.write_to_new)
                                   \/ (st = "legacy" /\ config.write_to_legacy)
                                THEN "scheduled" ELSE "none"]]
    /\ UNCHANGED <<c_raised, t_exc, t_session, sessions, conc_frame>>

\* async with self.*_session_factory() as session: the task gets its session.
TaskOpen(c, st) ==
    /\ t_pc[c][st] = "scheduled"
    /\ LET id == SessionFor(sessions, st)
       IN  /\ t_session' = [t_session EXCEPT ![c][st] = id]
           /\ sessions' =
                  IF id <= Len(sessions) THEN sessions
                  ELSE Append(sessions,
                              [store |-> st, owner |-> c, state |-> "open",
                               ended |-> "none", users |-> {}])
    /\ t_pc' = [t_pc EXCEPT ![c][st] = "running"]
    /\ UNCHANGED <<c_pc, c_result, c_raised, results, t_exc, conc_frame>>

\* await operation(session): the operation uses the session and returns or
\* raises.
TaskOperate(c, st, ok) ==
    /\ t_pc[c][st] = "running"
    /\ sessions' = [sessions EXCEPT ![t_session[c][st]].users = @ \cup {c}]
    /\ IF ok
       THEN /\ t_pc' = [t_pc EXCEPT ![c][st] = "committing"]
            /\ UNCHANGED t_exc
       ELSE /\ t_pc' = [t_pc EXCEPT ![c][st] = "closing_err"]
            /\ t_exc' = [t_exc EXCEPT ![c][st] = "op_error"]
    /\ UNCHANGED <<c_pc, c_result, c_raised, results, t_session, conc_frame>>

\* await session.commit(), then the success flag of the store.
TaskCommit(c, st, ok) ==
    /\ t_pc[c][st] = "committing"
    /\ IF ok
       THEN /\ sessions' = [sessions EXCEPT
                               ![t_session[c][st]].users = @ \cup {c},
                               ![t_session[c][st]].ended = "commit"]
            /\ results' = [results EXCEPT
                              ![c_result[c]] = WithSuccess(@, st)]
            /\ t_pc' = [t_pc EXCEPT ![c][st] = "closing_ok"]
            /\ UNCHANGED t_exc
       ELSE /\ sessions' = [sessions EXCEPT
                               ![t_session[c][st]].users = @ \cup {c}]
            /\ t_pc' = [t_pc EXCEPT ![c][st] = "closing_err"]
            /\ t_exc' = [t_exc EXCEPT ![c][st] = "commit_error"]
            /\ UNCHANGED results
    /\ UNCHANGED <<c_pc, c_result, c_raised, t_session, conc_frame>>

\* Leaving the async with closes the session, which rolls back what was not
\* committed; the except clause records the exception in the result.
TaskClose(c, st) ==
    /\ t_pc[c][st] \in {"closing_ok", "closing_err"}
    /\ sessions' = [sessions EXCEPT
                       ![t_session[c][st]].state = "closed",
                       ![t_session[c][st]].ended =
                           IF @ = "none" THEN "rollback" ELSE @]
    /\ IF t_pc[c][st] = "closing_ok"
       THEN /\ t_pc' = [t_pc EXCEPT ![c][st] = "done"]
            /\ UNCHANGED results
       ELSE /\ t_pc' = [t_pc EXCEPT ![c][st] = "failed"]
            /\ results' = [results EXCEPT
                              ![c_result[c]] = WithError(@, st, t_exc[c][st])]
    /\ UNCHANGED <<c_pc, c_result, c_raised, t_exc, t_session, conc_frame>>

\* Every store task of the call has ended.
TasksDone(c) == \A st \in Stores : Settled(t_pc[c][st])

\* _execute_new_db_only returns the result or re-raises.
NewOnlyEnd(c) ==
    /\ c_pc[c] = "new_only" /\ TasksDone(c)
    /\ IF t_pc[c]["new"] = "failed"
       THEN /\ c_pc' = [c_pc EXCEPT ![c] = "raised"]
            /\ c_raised' = [c_raised EXCEPT ![c] = t_exc[c]["new"]]
       ELSE /\ c_pc' = [c_pc EXCEPT ![c] = "returned"]
            /\ UNCHANGED c_raised
    /\ UNCHANGED <<c_result, results, t_pc, t_exc, t_session, sessions,
                   conc_frame>>

\* The failure policy of lines 163-173 applied to the call's result.
CallFinish(c, r) ==
    /\ c_raised' = [c_raised EXCEPT ![c] = FailurePolicy(config, r)]
    /\ c_pc' = [c_pc EXCEPT ![c] =
                    IF FailurePolicy(config, r) # None THEN "raised"
                    ELSE "returned"]

\* await asyncio.gather(...) returns when every task of the call has ended.
CallJoin(c) ==
    /\ c_pc[c] = "gather" /\ TasksDone(c)
    /\ IF config.validate_sync
       THEN /\ c_pc' = [c_pc EXCEPT ![c] = "validating"]
            /\ UNCHANGED c_raised
       ELSE CallFinish(c, results[c_result[c]])
    /\ UNCHANGED <<c_result, results, t_pc, t_exc, t_session, sessions,
                   conc_frame>>

\* The validation operation of the call ends.
CallValidation(c, outcome) ==
    /\ c_pc[c] = "validating"
    /\ results' = [results EXCEPT
                      ![c_result[c]].sync_validated = SyncValidated(outcome)]
    /\ CallFinish(c, results'[c_result[c]])
    /\ UNCHANGED <<c_result, t_pc, t_exc, t_session, sessions, conc_frame>>

NextConc ==
    \E c \in CallIds :
        \/ CallStart(c)
        \/ \E st \in Stores : TaskOpen(c, st)
        \/ \E st \in Stores, ok \in BOOLEAN : TaskOperate(c, st, ok)
        \/ \E st \in Stores, ok \in BOOLEAN : TaskCommit(c, st, ok)
        \/ \E st \in Stores : TaskClose(c, st)
        \/ NewOnlyEnd(c)
        \/ CallJoin(c)
        \/ \E outcome \in ValidationOutcomes : CallValidation(c, outcome)

\* The coordinator has any configuration with the default failure policy.
InitConc ==
    /\ Init
    /\ config.fail_on_new_error /\ ~config.fail_on_legacy_error

\* Two dual_write calls in flight on one coordinator.
SpecConc == InitConc /\ [][NextConc]_vars

\* ------------------------------------------------------------ create_cart
\* CartDualWriteManager.create_cart: dual_write of the two create-cart
\* operations with validate_cart_sync as validation.  Calls are serialized;
\* the two stores stamp created_at with their own NOW(), skew seconds apart.
CreateCart(u, new_fault, legacy_fault, skew) ==
    /\ cart_calls < MaxCartCalls
    /\ LET runs_new == DisabledPath(config) \/ config.write_to_new
           runs_legacy == ~DisabledPath(config) /\ config.write_to_legacy
           at == 2 * (cart_calls + 1)
           n == IF runs_new
                THEN CreateCartIn(cart_users["new"], carts["new"],
                                  cart_seq["new"], u, new_fault, at)
                ELSE Untouched(carts["new"], cart_seq["new"], None)
           l == IF runs_legacy
                THEN CreateCartIn(cart_users["legacy"], carts["legacy"],
                                  cart_seq["legacy"], u, legacy_fault,
                                  at + skew)
                ELSE Untouched(carts["legacy"], cart_seq["legacy"], None)
           written == [DualWriteResult EXCEPT
                          !.new_db_success = runs_new /\ n.error = None,
                          !.new_db_error = n.error,
                          !.legacy_db_success = runs_legacy /\ l.error = None,
                          !.legacy_db_error = l.error]
           r == [written EXCEPT
                    !.sync_validated =
                        /\ ~DisabledPath(config)
                        /\ config.validate_sync
                        /\ ValidateCartSync(n.rows, l.rows, u, new_fault,
                                            legacy_fault)]
           exc == IF DisabledPath(config) THEN n.error
                  ELSE FailurePolicy(config, r)
       IN  /\ carts' = [st \in Stores |->
                           IF st = "new" THEN n.rows ELSE l.rows]
           /\ cart_seq' = [st \in Stores |->
                              IF st = "new" THEN n.seq ELSE l.seq]
           /\ cart_log' =
                  LastTwo(Append(cart_log,
                      [user_id |-> u,
                       healthy |-> new_fault = "none" /\ legacy_fault = "none",
                       raised |-> exc,
                       result |-> r,
                       inserted |-> {st \in Stores :
                                       IF st = "new" THEN n.inserted
                                       ELSE l.inserted}]))
    /\ cart_calls' = cart_calls + 1
    /\ UNCHANGED <<cart_users, cart_frame>>

\* A cart coordinator of any configuration over two empty carts tables;
\* each store has one of the users tables.
InitCart ==
    /\ config \in DualWriteConfig
    /\ pc = "idle"
    /\ calls = 0
    /\ quantity = 1
    /\ has_validation = FALSE
    /\ result = DualWriteResult
    /\ raised = None
    /\ new_pc = "none" /\ legacy_pc = "none"
    /\ new_exc = None /\ legacy_exc = None
    /\ new_session = "none" /\ legacy_session = "none"
    /\ new_pending = NoRow /\ legacy_pending = NoRow
    /\ new_store = NoRow /\ legacy_store = NoRow
    /\ validation_ran = FALSE
    /\ validation_outcome = "none"
    /\ commit_log = <<>>
    /\ new_store_before = NoRow /\ legacy_store_before = NoRow
    /\ orders_seen = {}
    /\ CfgIdle
    /\ ValIdle
    /\ BatchIdle /\ ReportIdle /\ MetricsIdle /\ ConnIdle /\ ConcIdle
    /\ EnvIdle /\ SvcIdle /\ SwitchIdle /\ AuthIdle
    /\ cart_users \in [Stores -> UsersTables]
    /\ carts = [st \in Stores |-> <<>>]
    /\ cart_seq = [st \in Stores |-> 0]
    /\ cart_calls = 0
    /\ cart_log = <<>>

NextCart ==
    \E u \in CartUserIds, nf \in StoreFaults, lf \in StoreFaults,
       skew \in {0, 1} :
        CreateCart(u, nf, lf, skew)

\* Serialized create_cart calls on one cart coordinator.
SpecCart == InitCart /\ [][NextCart]_vars

\* --------------------------------------------------------------- from_env
\* DualWriteSettings.from_env, lines 39-58: the settings object built from
\* the environment.  _get_bool_env raises nothing; _get_int_env catches the
\* ValueError of int().
LoadFromEnv ==
    /\ from_env_result = NotLoaded
    /\ from_env_result' = FromEnv(SetVariables(environ))
    /\ from_env_raised' = None
    /\ UNCHANGED <<environ, env_frame>>

\* The process starts with any of the strings, or nothing, in each variable.
InitEnv ==
    /\ DwIdle
    /\ CfgIdle
    /\ ValIdle
    /\ BatchIdle /\ ReportIdle /\ MetricsIdle /\ ConnIdle /\ ConcIdle
    /\ CartIdle /\ SvcIdle /\ SwitchIdle /\ AuthIdle
    /\ environ \in [DOMAIN FieldOfKey -> RawValues \cup {Unset}]
    /\ from_env_result = NotLoaded
    /\ from_env_raised = None

NextEnv == LoadFromEnv

\* Settings loaded once from an environment.
SpecEnv == InitEnv /\ [][NextEnv]_vars

\* ------------------------------------------------- service coordinator
\* dual_write, lines 133-173, on the service's coordinator for the given
\* outcomes of the two store operations: the stores written, the result
\* and the exception raised.
ServiceOutcome(cfg, new_ok, legacy_ok) ==
    LET t == AsTested(cfg)
        runs_new == DisabledPath(t) \/ t.write_to_new
        runs_legacy == ~DisabledPath(t) /\ t.write_to_legacy
        r == [DualWriteResult EXCEPT
                 !.new_db_success = runs_new /\ new_ok,
                 !.new_db_error =
                     IF runs_new /\ ~new_ok THEN "new_op_error" ELSE None,
                 !.legacy_db_success = runs_legacy /\ legacy_ok,
                 !.legacy_db_error =
                     IF runs_legacy /\ ~legacy_ok THEN "legacy_op_error"
                     ELSE None]
    IN  [called |-> TRUE, new_ran |-> runs_new, legacy_ran |-> runs_legacy,
         new_ok |-> new_ok, legacy_ok |-> legacy_ok, result |-> r,
         raised |-> IF DisabledPath(t) THEN r.new_db_error
                    ELSE FailurePolicy(t, r)]

\* database.py, init_dual_write, lines 84-116: a CartDualWriteManager is
\* created when the legacy URL and dual_write_enabled are both truthy; its
\* DualWriteConfig holds the strings of the service settings.
InitDualWrite ==
    /\ ~svc_started
    /\ svc_started' = TRUE
    /\ dual_write_manager' =
           IF TruthyStr(legacy_database_url)
              /\ TruthyStr(app_settings.enabled)
           THEN [created |-> TRUE, config |-> ConfigFromSettings(app_settings)]
           ELSE NoManager
    /\ UNCHANGED <<app_settings, legacy_database_url, svc_outcome, svc_frame>>

\* A dual_write call on the service's coordinator.
ServiceDualWrite(new_ok, legacy_ok) ==
    /\ dual_write_manager # NoManager
    /\ svc_outcome = NoOutcome
    /\ svc_outcome' =
           ServiceOutcome(dual_write_manager.config, new_ok, legacy_ok)
    /\ UNCHANGED <<app_settings, legacy_database_url, dual_write_manager,
                   svc_started, svc_frame>>

\* The service starts with any strings in its dual-write flags, with or
\* without a legacy database URL.
InitSvc ==
    /\ DwIdle
    /\ CfgIdle
    /\ ValIdle
    /\ BatchIdle /\ ReportIdle /\ MetricsIdle /\ ConnIdle /\ ConcIdle
    /\ CartIdle /\ EnvIdle /\ SwitchIdle /\ AuthIdle
    /\ app_settings \in [ConfigFlags -> FlagStrings]
    /\ legacy_database_url \in {"", "postgresql+asyncpg://legacy"}
    /\ dual_write_manager = NoManager
    /\ svc_started = FALSE
    /\ svc_outcome = NoOutcome

NextSvc ==
    \/ InitDualWrite
    \/ \E new_ok \in BOOLEAN, legacy_ok \in BOOLEAN :
          ServiceDualWrite(new_ok, legacy_ok)

\* The cart service creates its coordinator and makes one dual_write call.
SpecSvc == InitSvc /\ [][NextSvc]_vars

\* ------------------------------------------------- cut-over sequences
\* disable_dual_write, enable_dual_write, switch_to_new_db_only and
\* switch_to_legacy_db_only, lines 118-146, on the cached settings object
\* of one service: update_settings sets the attributes named by the
\* operation's keyword arguments.
Cutover(op) ==
    /\ Len(switch_trace) < MaxSwitches
    /\ current_settings' = ApplyKwargs(current_settings, KwargsOf(op))
    /\ switch_trace' = Append(switch_trace, op)
    /\ UNCHANGED <<initial_settings, switch_frame>>

\* The service's settings object holds any flags.
InitSwitch ==
    /\ DwIdle
    /\ CfgIdle
    /\ ValIdle
    /\ BatchIdle /\ ReportIdle /\ MetricsIdle /\ ConnIdle /\ ConcIdle
    /\ CartIdle /\ EnvIdle /\ SvcIdle /\ AuthIdle
    /\ initial_settings \in AnySettings
    /\ current_settings = initial_settings
    /\ switch_trace = <<>>

NextSwitch == \E op \in CutoverOps : Cutover(op)

\* Sequences of cut-over operations on one settings object.
SpecSwitch == InitSwitch /\ [][NextSwitch]_vars

\* ------------------------------------------------------------ sync_entity
\* AuthDualWriteManager.sync_entity(uid, direction), lines 194-258: the
\* source row is read and, when there is one, upserted into the destination
\* and committed; True is returned, False when anything raised.
SyncEntity(direction, ok) ==
    /\ sync_returned = "none"
    /\ sync_direction' = direction
    /\ LET src == auth_users[SourceOf(direction)]
           dst == auth_users[DestinationOf(direction)]
       IN  IF ~ok
           THEN /\ sync_returned' = "False"
                /\ UNCHANGED auth_users
           ELSE /\ sync_returned' = "True"
                /\ auth_users' =
                       IF src = NoUser THEN auth_users
                       ELSE [auth_users EXCEPT
                                ![DestinationOf(direction)] = Upsert(dst, src)]
    /\ UNCHANGED <<validate_returned, auth_frame>>

\* AuthDualWriteManager.validate_user_sync(uid), lines 177-191, with both
\* stores answering.
ValidateUserSync ==
    /\ sync_returned # "none"
    /\ validate_returned = "none"
    /\ validate_returned' =
           IF UserSynchronized(auth_users["new"], auth_users["legacy"])
           THEN "True" ELSE "False"
    /\ UNCHANGED <<auth_users, sync_direction, sync_returned, auth_frame>>

\* Each store holds any row, or none, for the uid.
InitAuth ==
    /\ DwIdle
    /\ CfgIdle
    /\ ValIdle
    /\ BatchIdle /\ ReportIdle /\ MetricsIdle /\ ConnIdle /\ ConcIdle
    /\ CartIdle /\ EnvIdle /\ SvcIdle /\ SwitchIdle
    /\ auth_users \in [Stores -> UserRows \cup {NoUser}]
    /\ sync_direction = "none"
    /\ sync_returned = "none"
    /\ validate_returned = "none"

NextAuth ==
    \/ \E d \in Directions, ok \in BOOLEAN : SyncEntity(d, ok)
    \/ ValidateUserSync

\* One sync_entity call followed by validate_user_sync.
SpecAuth == InitAuth /\ [][NextAuth]_vars

\* ================================================================ claims
\* Both stores take part in the call in flight (dual-write enabled, both
\* write flags set).
BothWritten == config.enabled /\ config.write_to_new /\ config.write_to_legacy

\* The new-store operation of the call failed and its flag makes that fatal.
NewFatal == new_pc = "failed" /\ config.fail_on_new_error

\* The legacy-store operation of the call failed and its flag makes that fatal.
LegacyFatal == legacy_pc = "failed" /\ config.fail_on_legacy_error

\* C1 (as claimed): when both stores are written, the new store commits, the
\* legacy store fails and fail_on_legacy_error is false, dual_write returns
\* and the result has success true, legacy_db_success false and
\* legacy_db_error set.
C1_LegacyFailureTolerated ==
    (Over /\ BothWritten /\ ~config.fail_on_legacy_error
          /\ new_pc = "done" /\ legacy_pc = "failed")
        => /\ pc = "returned"
           /\ Success(result)
           /\ ~result.legacy_db_success
           /\ Truthy(result.legacy_db_error)

\* C2: whenever the new-store operation of a call failed and
\* fail_on_new_error is true, the call raises, and what it raises is the
\* exception the new-store operation raised.
C2_NewErrorRaised ==
    (Over /\ NewFatal)
        => /\ pc = "raised"
           /\ raised = new_exc
           /\ raised \in NewErrors

C2_Witness ==
    /\ pc = "raised" /\ config.enabled /\ NewFatal
    /\ legacy_pc = "failed" /\ config.fail_on_legacy_error
    /\ raised = "new_commit_error"

\* C3: while enabled is false no legacy session is opened and the legacy
\* operation is never invoked; a call whose new-store operation committed
\* returns a result with new_db_success, and a call whose new-store operation
\* failed raises that operation's exception and leaves the new store as it
\* was before the call.
C3_DisabledMirrorsNewStore ==
    ~config.enabled
        => /\ legacy_session = "none" /\ legacy_pc = "none"
           /\ legacy_store = legacy_store_before /\ ~result.legacy_db_success
           /\ (new_pc = "done" => pc = "returned" /\ result.new_db_success
                                  /\ new_store = quantity)
           /\ (new_pc = "failed" => /\ pc = "raised"
                                    /\ raised = new_exc /\ raised \in NewErrors
                                    /\ new_store = new_store_before)
           /\ (Over => new_pc \in {"done", "failed"})

C3_Witness ==
    /\ ~config.enabled /\ config.write_to_legacy /\ ~config.write_to_new
    /\ ~config.fail_on_new_error
    /\ calls = 2 /\ pc = "raised" /\ new_store_before # NoRow
    /\ new_store_before # quantity

\* C4: a call in which both store operations committed returns a result with
\* success, new_db_success and legacy_db_success all true, whatever the
\* failure flags, validate_sync and the validation outcome are.
C4_BothCommitSuccess ==
    (Over /\ new_pc = "done" /\ legacy_pc = "done")
        => /\ pc = "returned"
           /\ Success(result)
           /\ result.new_db_success /\ result.legacy_db_success

C4_Witness ==
    /\ pc = "returned" /\ new_pc = "done" /\ legacy_pc = "done"
    /\ config.fail_on_new_error /\ config.fail_on_legacy_error
    /\ validation_outcome = "false" /\ ~result.sync_validated

\* C5: the policy looks at the new store first: when both operations failed
\* and both flags are set the new-store exception is raised; a legacy
\* exception is raised only when fail_on_legacy_error is set, the legacy
\* operation failed and the new store did not fail fatally, and it is the
\* exception the legacy operation raised.
C5_NewStoreFirst ==
    (Over /\ config.enabled)
        => /\ (NewFatal /\ LegacyFatal => raised = new_exc)
           /\ (raised \in LegacyErrors =>
                  /\ LegacyFatal /\ ~NewFatal
                  /\ raised = legacy_exc)

C5_Witness ==
    /\ pc = "raised" /\ raised = "legacy_op_error"
    /\ new_pc = "failed" /\ ~config.fail_on_new_error
    /\ config.fail_on_legacy_error

\* C6 (as claimed): for every configuration, enabled false included,
\* dual_write raises only if a store operation failed and that store's
\* fail-on-error flag is set, and returns a result otherwise.
C6_RaisesOnlyWhenFatal ==
    Over => (pc = "raised" <=> (NewFatal \/ LegacyFatal))

\* C6 (amended): with enabled true dual_write raises exactly when a store
\* operation failed and that store's flag is set; with enabled false it
\* raises exactly when the new-store operation failed, whatever
\* fail_on_new_error is.  In every other case it returns the result.
C6_RaisesOnlyWhenFatalOrDisabled ==
    Over => (pc = "raised" <=>
                IF config.enabled THEN NewFatal \/ LegacyFatal
                                  ELSE new_pc = "failed")

C6_Witness ==
    /\ ~config.enabled /\ ~config.fail_on_new_error
    /\ pc = "raised" /\ new_pc = "failed"

\* C7: the validation operation of a call is invoked only when every store
\* task of the call has finished: no store operation is running, no commit
\* is in flight and no session of the call is open while it runs or after.
C7_ValidationAfterWrites ==
    validation_ran
        => /\ Settled(new_pc) /\ Settled(legacy_pc)
           /\ new_session # "open" /\ legacy_session # "open"
           /\ new_pending = NoRow /\ legacy_pending = NoRow

C7_Witness ==
    /\ pc = "validating" /\ new_pc = "failed" /\ legacy_pc = "done"
    /\ commit_log = <<"legacy">>

\* C8: while the call is in the gather, a store task that has not finished
\* can always take its next step, whatever the position of the other task;
\* neither store waits for the other.
C8_StoresDoNotGateEachOther ==
    /\ (pc = "gather" /\ ~Settled(new_pc))
           => ENABLED (NewOperation \/ NewCommit \/ NewClose)
    /\ (pc = "gather" /\ ~Settled(legacy_pc))
           => ENABLED (LegacyOperation \/ LegacyCommit \/ LegacyClose)

\* Both commit orders have been seen, and in the call just finished the
\* legacy store committed first.
C8_Witness ==
    /\ orders_seen = {"new_first", "legacy_first"}
    /\ commit_log = <<"legacy", "new">>

\* C9: sync_validated is true only if validate_sync is set, a validation
\* operation was supplied and it returned true; when the validation raised,
\* sync_validated is false, the call raises only what the failure policy
\* makes of the store errors, and every committed write is still in its store.
C9_ValidationNeverFatal ==
    /\ result.sync_validated
           => /\ config.enabled /\ config.validate_sync /\ has_validation
              /\ validation_ran /\ validation_outcome = "true"
    /\ validation_outcome = "raise"
           => /\ ~result.sync_validated
              /\ Over
              /\ (pc = "raised" => NewFatal \/ LegacyFatal)
              /\ (pc = "raised" => raised \in {new_exc, legacy_exc})
              /\ (result.new_db_success => new_store = quantity)
              /\ (result.legacy_db_success => legacy_store = quantity)

C9_Witness ==
    /\ validation_outcome = "raise" /\ pc = "returned"
    /\ result.new_db_success /\ result.legacy_db_success
    /\ new_store = quantity /\ legacy_store = quantity

\* C10: each store's write is a transaction of its own: a store whose
\* operation committed holds the written row whatever happened to the other
\* store, and a store whose operation failed holds what it held before the
\* call.
C10_IndependentTransactions ==
    /\ result.new_db_success => new_store = quantity
    /\ result.legacy_db_success => legacy_store = quantity
    /\ new_pc = "failed" => new_store = new_store_before
    /\ legacy_pc = "failed" => legacy_store = legacy_store_before

\* add_cart_item(1, 123, 2) with the legacy store failing: quantity 2 is in
\* the new store, nothing in the legacy store.
C10_Witness ==
    /\ pc = "returned" /\ ~config.fail_on_legacy_error
    /\ quantity = 2 /\ new_store = 2 /\ result.new_db_success
    /\ legacy_pc = "failed" /\ legacy_store = NoRow

\* ------------------------------------------------ Config Manager claims
\* The settings of service s that an update_settings call starts from: the
\* cached object, or the one get_settings loads first.
Before(s) == CacheAfterGet(cache, env, s)[s]

\* The step is a Config Manager call of the given name for service s.
IsOp(name, s) == ops' = ops + 1 /\ last_op' = <<name, s>>

\* C11 (as claimed): every dual_write call of the coordinator starts under
\* the settings the Config Manager holds for its service at that moment: it
\* takes the disabled path exactly when they say enabled is false, and opens
\* a session on a store exactly when they say that store is written (after
\* switch_to_new_db_only no call opens a legacy session).
C11_ConfigChangeTakesEffect ==
    [][calls' = calls + 1 =>
          LET st == cache[CoordService]
          IN  IF ~st.enabled THEN pc' = "new_only"
              ELSE /\ pc' = "gather"
                   /\ (legacy_session' = "open") = st.write_to_legacy
                   /\ (new_session' = "open") = st.write_to_new]_vars

\* C12 (as claimed): in every configuration the Config Manager holds, enabled
\* implies that at least one of write_to_legacy / write_to_new is true.
C12_AtLeastOneWriter ==
    \A s \in Services :
        (Loaded(cache, s) /\ cache[s].enabled)
            => (cache[s].write_to_legacy \/ cache[s].write_to_new)

\* C13: switch_to_new_db_only leaves write_to_legacy false, write_to_new true
\* and fail_on_legacy_error false; switch_to_legacy_db_only leaves
\* write_to_legacy true, write_to_new false and fail_on_new_error false; every
\* other attribute of the service's settings keeps the value it had.
C13_SwitchEffects ==
    [][\A s \in Services :
          /\ IsOp("switch_to_new_db_only", s) =>
                /\ ~cache'[s].write_to_legacy
                /\ cache'[s].write_to_new
                /\ ~cache'[s].fail_on_legacy_error
                /\ \A a \in DOMAIN cache'[s] \
                          {"write_to_legacy", "write_to_new",
                           "fail_on_legacy_error"} :
                       cache'[s][a] = Before(s)[a]
          /\ IsOp("switch_to_legacy_db_only", s) =>
                /\ cache'[s].write_to_legacy
                /\ ~cache'[s].write_to_new
                /\ ~cache'[s].fail_on_new_error
                /\ \A a \in DOMAIN cache'[s] \
                          {"write_to_legacy", "write_to_new",
                           "fail_on_new_error"} :
                       cache'[s][a] = Before(s)[a]]_vars

\* switch_to_new_db_only has just cleared a fail_on_legacy_error that the
\* environment had set, and left the fields that environment had changed.
C13_Witness ==
    /\ last_op = <<"switch_to_new_db_only", "cart">>
    /\ ~cache["cart"].write_to_legacy /\ cache["cart"].write_to_new
    /\ ~cache["cart"].fail_on_legacy_error
    /\ FromEnv(env["cart"]).fail_on_legacy_error
    /\ ~cache["cart"].validate_sync
    /\ cache["cart"].sync_validation_interval = 60
    /\ ~cache["cart"].enabled

\* C14 (as claimed): update_settings(s, kw) sets exactly the settings fields
\* named in kw to the given values; every other attribute of that service's
\* settings and the settings of every other service stay as they were, and a
\* name that is not a settings field changes nothing.
C14_UpdateFrame ==
    [][\A s \in Services, kw \in UpdateInputs :
          UpdateSettings(s, kw) =>
              /\ \A a \in DOMAIN cache'[s] :
                     cache'[s][a] = IF a \in Fields \cap DOMAIN kw
                                    THEN kw[a] ELSE Before(s)[a]
              /\ \A t \in Services \ {s} : cache'[t] = cache[t]]_vars

\* C15: the environment of a service is read at most once; a get_settings
\* call for a service already in the cache leaves the cache as it is and
\* returns the cached object; a change of the environment never changes the
\* cache; what any call returns is what the cache holds after it.
C15_ReadOnceThenCached ==
    [][\A s \in Services :
          /\ env_reads'[s] <= 1
          /\ (Loaded(cache, s) /\ IsOp("get_settings", s))
                 => cache' = cache /\ got' = cache[s]
          /\ (Loaded(cache, s) /\ env' # env) => cache'[s] = cache[s]
          /\ (ops' = ops + 1 /\ last_op'[2] = s /\ last_op'[1] # "set_env")
                 => got' = cache'[s]]_vars

\* get_settings has just returned settings that were loaded once, updated
\* since, and that the present environment would no longer produce.
C15_Witness ==
    /\ last_op = <<"get_settings", "cart">>
    /\ env_reads["cart"] = 1
    /\ got = cache["cart"]
    /\ got.batch_size = 50
    /\ FromEnv(env["cart"]).enabled # got.enabled


\* ------------------------------------------------- the Sync Validator
\* A validate_entity_sync call has returned.
Returned == sync_result # NoResult

\* It returned with both fetches having succeeded.
Fetched == Returned /\ fetch_fault = "none"

\* Both rows were found and compared.
Compared == Fetched /\ new_db_row.present /\ legacy_db_row.present

\* The field has an entry in the returned differences.
Listed(f) ==
    \E i \in 1 .. Len(sync_result.differences) :
        sync_result.differences[i].field = f

\* The raw values of the field in the two rows.
NewValue(f) == Get(new_db_row.data, f)

LegacyValue(f) == Get(legacy_db_row.data, f)

\* C16: an entity found in exactly one store is returned unsynchronized, with
\* an empty differences list and an error message; when both fetches
\* succeeded the message is the existence mismatch, naming the store that
\* has the row.
C16_ExistenceMismatchReported ==
    (Returned /\ new_db_row.present # legacy_db_row.present) =>
        /\ ~sync_result.is_synchronized
        /\ sync_result.differences = <<>>
        /\ sync_result.error_message # NoMessage
        /\ fetch_fault = "none" =>
              /\ sync_result.error_message.kind = "only_one"
              /\ sync_result.error_message.new_db = new_db_row.present
              /\ sync_result.error_message.legacy_db = legacy_db_row.present

C16_Witness ==
    /\ Fetched
    /\ new_db_row.present /\ ~legacy_db_row.present
    /\ ~sync_result.is_synchronized
    /\ sync_result.differences = <<>>
    /\ sync_result.error_message =
           [kind |-> "only_one", new_db |-> TRUE, legacy_db |-> FALSE]

\* C17: an entity found in neither store (both fetches succeeding) is
\* returned synchronized, with both snapshots null, no differences and no
\* error message.
C17_BothAbsentSynchronized ==
    (Fetched /\ ~new_db_row.present /\ ~legacy_db_row.present) =>
        /\ sync_result.is_synchronized
        /\ sync_result.new_db_data = Absent
        /\ sync_result.legacy_db_data = Absent
        /\ sync_result.differences = <<>>
        /\ sync_result.error_message = NoMessage

C17_Witness ==
    /\ Fetched
    /\ new_db_row = Absent /\ legacy_db_row = Absent
    /\ sync_result.is_synchronized
    /\ sync_result.error_message = NoMessage

\* Two timestamps differing at most in their sub-second part.
SubSecondOnly(a, b) == a.t = "dt" /\ b.t = "dt" /\ a.n = b.n

\* Two numbers equal in every digit up to the second decimal.
BeyondSecondDecimalOnly(a, b) ==
    /\ a.t \in {"num", "dec"} /\ b.t \in {"num", "dec"}
    /\ a.n \div 10 = b.n \div 10

\* C18: a compared field whose two values are timestamps differing only in
\* the sub-second part, or numbers differing only beyond the second decimal,
\* is not reported as a difference.
C18_PrecisionNoiseIgnored ==
    Compared =>
        \A f \in FieldNames :
            (\/ SubSecondOnly(NewValue(f), LegacyValue(f))
             \/ BeyondSecondDecimalOnly(NewValue(f), LegacyValue(f)))
                => ~Listed(f)

\* One value is null and the other a blank string or a numeric zero.
NullAgainstBlankOrZero(a, b) ==
    /\ a.t = "null"
    /\ \/ b.t = "str" /\ \A i \in 1 .. Len(b.s) : b.s[i] = " "
       \/ b.t \in {"num", "dec"} /\ b.n = 0

\* C19: a compared field, not ignored, that is null in one row and an empty
\* string, a whitespace-only string or a numeric zero in the other is
\* reported as a difference.
C19_NullNeverCoerced ==
    Compared =>
        \A f \in FieldNames \ ignore_fields :
            (\/ NullAgainstBlankOrZero(NewValue(f), LegacyValue(f))
             \/ NullAgainstBlankOrZero(LegacyValue(f), NewValue(f)))
                => Listed(f)

C19_Witness ==
    /\ Compared
    /\ "quantity" \notin ignore_fields
    /\ NewValue("quantity") = Null
    /\ LegacyValue("quantity") = Str(<<" ">>)
    /\ Listed("quantity")
    /\ ~sync_result.is_synchronized

\* Scenario C: the rows agree except for quantity 3 against 2.
ScenarioC ==
    /\ Compared
    /\ ignore_fields = {}
    /\ NewValue("quantity") = Num(3000)
    /\ LegacyValue("quantity") = Num(2000)
    /\ NewValue("updated_at") = LegacyValue("updated_at")

\* C20: when both rows exist, a field is listed in differences exactly when
\* it is a field of either row, is not ignored and its normalized values
\* differ; every entry carries the raw values of both rows; the result is
\* synchronized exactly when differences is empty; scenario C yields the
\* single entry for quantity with 3 and 2.
C20_DifferencesExact ==
    Compared =>
        LET n == new_db_row.data
            l == legacy_db_row.data
            d == sync_result.differences
        IN  /\ \A f \in FieldNames :
                  Listed(f) <=>
                      /\ f \in DOMAIN n \cup DOMAIN l
                      /\ f \notin ignore_fields
                      /\ ~PyEq(Normalize(NewValue(f)),
                               Normalize(LegacyValue(f)))
            /\ \A i \in 1 .. Len(d) :
                  /\ d[i].new_db_value = NewValue(d[i].field)
                  /\ d[i].legacy_db_value = LegacyValue(d[i].field)
                  /\ \A j \in 1 .. Len(d) : d[j].field = d[i].field => j = i
            /\ sync_result.is_synchronized <=> (d = <<>>)
            /\ ScenarioC =>
                  d = <<[field |-> "quantity", new_db_value |-> Num(3000),
                         legacy_db_value |-> Num(2000)]>>

C20_Witness ==
    /\ ScenarioC
    /\ ~sync_result.is_synchronized
    /\ sync_result.differences =
           <<[field |-> "quantity", new_db_value |-> Num(3000),
              legacy_db_value |-> Num(2000)]>>

\* C21: validate_entity_sync raises nothing; when a fetch fails it returns an
\* unsynchronized result with no differences and the validation-error
\* message, which no result of two successful fetches carries: a field
\* mismatch has no message and an existence mismatch has its own.
C21_FetchFailureReported ==
    /\ sync_raised = None
    /\ (Returned /\ fetch_fault # "none") =>
          /\ ~sync_result.is_synchronized
          /\ sync_result.differences = <<>>
          /\ sync_result.error_message = ValidationError
    /\ Fetched => sync_result.error_message.kind \in {"none", "only_one"}
    /\ Compared => sync_result.error_message = NoMessage

C21_Witness ==
    /\ Returned
    /\ sync_raised = None
    /\ fetch_fault = "legacy"
    /\ new_db_row.present /\ legacy_db_row.present
    /\ ~sync_result.is_synchronized
    /\ sync_result.differences = <<>>
    /\ sync_result.error_message = ValidationError

BatchReturned == batch_calls = 1

\* C23: validate_batch_sync returns one result per input id, the i-th for
\* the i-th id, each the result validate_entity_sync gives for that id,
\* whatever the earlier results were.
C23_BatchOneResultPerId ==
    BatchReturned =>
        /\ Len(batch_results) = Len(batch_ids)
        /\ \A i \in 1 .. Len(batch_ids) :
              /\ batch_results[i].entity_id = batch_ids[i]
              /\ batch_results[i] =
                     EntityResult(batch_ids[i], batch_faults[i], new_db_rows,
                                  legacy_db_rows, batch_ignore, hash_order)

C23_Witness ==
    /\ BatchReturned
    /\ Len(batch_ids) = MaxBatch
    /\ Len(batch_results) = MaxBatch
    /\ batch_results[1].error_message = ValidationError
    /\ ~batch_results[1].is_synchronized
    /\ batch_results[MaxBatch].entity_id = batch_ids[MaxBatch]
    /\ batch_results[MaxBatch].is_synchronized
    /\ batch_ids[MaxBatch] # batch_ids[1]

\* A report has been generated.
Reported == report # NoReport

\* The number of differences, over all results, that name the field.
Frequency(f) ==
    Cardinality({p \in (DOMAIN validation_results) \X (1 .. Len(ReportFields)) :
                    /\ p[2] <= Len(validation_results[p[1]].differences)
                    /\ validation_results[p[1]].differences[p[2]].field = f})

\* The positions of the unsynchronized results.
Unsynchronized ==
    {i \in DOMAIN validation_results :
        ~validation_results[i].is_synchronized}

\* C24: the report counts every result, its synchronized and unsynchronized
\* counts add up to the total, error_count counts the results with an error
\* message, unsynchronized_entities lists the unsynchronized results in input
\* order with their difference counts, and common_issues holds the at most
\* ten most frequent fields in non-increasing order of frequency.
C24_ReportAggregates ==
    Reported =>
        LET sm == report.summary
            ue == report.unsynchronized_entities
            ci == report.common_issues
            listed == {ci[k].field : k \in DOMAIN ci}
            differing == {f \in {ReportFields[i] : i \in DOMAIN ReportFields} :
                             Frequency(f) > 0}
        IN  /\ sm.total_entities = Len(validation_results)
            /\ sm.synchronized_count + sm.unsynchronized_count
                   = sm.total_entities
            /\ sm.error_count =
                   Cardinality({i \in DOMAIN validation_results :
                       validation_results[i].error_message # NoMessage})
            /\ Len(ue) = Cardinality(Unsynchronized)
            /\ \A i \in Unsynchronized :
                  LET k == Cardinality({j \in Unsynchronized : j <= i})
                  IN  /\ ue[k].entity_id = validation_results[i].entity_id
                      /\ ue[k].difference_count =
                             Len(validation_results[i].differences)
            /\ Len(ci) <= TopIssues
            /\ Cardinality(listed) = Len(ci)
            /\ listed \subseteq differing
            /\ Len(ci) < TopIssues => listed = differing
            /\ \A k \in DOMAIN ci : ci[k].count = Frequency(ci[k].field)
            /\ \A k \in DOMAIN ci : k < Len(ci) => ci[k].count >= ci[k + 1].count
            /\ \A f \in differing \ listed, k \in DOMAIN ci :
                  Frequency(f) <= ci[k].count

C24_Witness ==
    /\ Reported
    /\ Len(validation_results) = MaxResults
    /\ Len(report.common_issues) = TopIssues
    /\ report.common_issues[1] = [field |-> "f11", count |-> MaxResults]
    /\ report.common_issues[2].field = "f02"
    /\ Frequency("f10") = 1
    /\ \A k \in DOMAIN report.common_issues :
          report.common_issues[k].field # "f10"
    /\ report.summary.synchronized_count = 0

\* C25: validation_errors never holds more than 100 entries and is the most
\* recent part, in order, of the failure messages recorded; the three
\* counters never decrease and validation_count is the sum of the other two.
C25_MetricsBounded ==
    /\ [](/\ Len(validation_errors) <= ErrorCap
          /\ Len(validation_errors) <= Len(recorded)
          /\ Len(recorded) > ErrorCap => Len(validation_errors) = ErrorCap
          /\ \A i \in 1 .. Len(validation_errors) :
                validation_errors[i] =
                    recorded[Len(recorded) - Len(validation_errors) + i]
          /\ validation_count = sync_success_count + sync_failure_count)
    /\ [][/\ validation_count' >= validation_count
          /\ sync_success_count' >= sync_success_count
          /\ sync_failure_count' >= sync_failure_count]_vars

C25_Witness ==
    /\ records = MaxRecords
    /\ Len(recorded) > ErrorCap + 1
    /\ Len(validation_errors) = ErrorCap
    /\ validation_errors[ErrorCap] = validation_count
    /\ validation_errors[1] = recorded[Len(recorded) - ErrorCap + 1]
    /\ sync_success_count > 0

\* A health_check call has returned.
HealthReturned == health_status # NoStatus

\* C26: health_check raises nothing and reports each store as healthy or
\* unhealthy, never unknown: a store is healthy exactly when its own check
\* raised nothing, whatever happened in the other store's check.
C26_HealthReportsBoth ==
    /\ health_raised = None
    /\ HealthReturned =>
          /\ health_status.new_db.status \in {"healthy", "unhealthy"}
          /\ health_status.legacy_db.status \in {"healthy", "unhealthy"}
          /\ (health_status.new_db.status = "healthy")
                 <=> (check_faults[1] = "none")
          /\ (health_status.legacy_db.status = "healthy")
                 <=> (check_faults[2] = "none")

C26_Witness ==
    /\ HealthReturned
    /\ check_faults = <<"execute", "none">>
    /\ health_status.new_db = [status |-> "unhealthy", error |-> "execute"]
    /\ health_status.legacy_db = [status |-> "healthy", error |-> None]

\* C27: after close() has returned it has raised nothing, dispose() was
\* called on both engines, and every pool whose dispose() did not raise is
\* disposed.
C27_CloseDisposesBoth ==
    closed =>
        /\ close_raised = None
        /\ dispose_calls = <<"new", "legacy">>
        /\ "new" \notin dispose_raised => new_pool = "disposed"
        /\ "legacy" \notin dispose_raised => legacy_pool = "disposed"

\* The call has returned a result or raised.
Ended(c) == c_pc[c] \in {"returned", "raised"}

\* C28: every store task of a call has a session of its own; no session is
\* used by a call that did not open it, hence by two calls; and when a call
\* has returned or raised, each session it opened is closed, its transaction
\* committed or rolled back.
C28_SessionsPerCall ==
    /\ \A i \in DOMAIN sessions : sessions[i].users \subseteq {sessions[i].owner}
    /\ \A c, d \in CallIds, st, su \in Stores :
          (t_session[c][st] # 0 /\ t_session[c][st] = t_session[d][su])
              => (c = d /\ st = su)
    /\ \A c \in CallIds, st \in Stores :
          t_session[c][st] # 0 => sessions[t_session[c][st]].owner = c
    /\ \A c \in CallIds :
          Ended(c) =>
              \A i \in DOMAIN sessions :
                  sessions[i].owner = c =>
                      /\ sessions[i].state = "closed"
                      /\ sessions[i].ended \in {"commit", "rollback"}

C28_Witness ==
    /\ \A c \in CallIds : Ended(c)
    /\ Len(sessions) = Cardinality(CallIds) * Cardinality(Stores)
    /\ sessions[1].owner # sessions[2].owner
    /\ \E i \in DOMAIN sessions : sessions[i].ended = "rollback"
    /\ \E i \in DOMAIN sessions : sessions[i].ended = "commit"
    /\ \A i \in DOMAIN sessions : sessions[i].state = "closed"

\* C29: when a call has returned, none of its store tasks and no validation
\* of it is running; the coordinator no longer changes its result object;
\* and two calls never have the same result object.
C29_ResultFrozen ==
    /\ [](/\ \A c \in CallIds :
                c_pc[c] = "returned" => TasksDone(c) /\ c_result[c] # 0
          /\ \A c, d \in CallIds :
                (c # d /\ c_result[c] # 0) => c_result[c] # c_result[d])
    /\ [][\A c \in CallIds :
              c_pc[c] = "returned" =>
                  /\ c_pc'[c] = "returned"
                  /\ c_result'[c] = c_result[c]
                  /\ results'[c_result[c]] = results[c_result[c]]]_vars

C29_Witness ==
    /\ c_pc["a"] = "returned"
    /\ results[c_result["a"]].new_db_success
    /\ results[c_result["a"]].legacy_db_error = "op_error"
    /\ c_pc["b"] = "returned"
    /\ results[c_result["b"]].legacy_db_success
    /\ results[c_result["b"]].sync_validated
    /\ c_result["a"] > c_result["b"]

\* ------------------------------------------------------ create_cart claims
\* The last two create_cart calls were for one user, with both stores
\* healthy.
TwoHealthyCalls ==
    /\ Len(cart_log) = 2
    /\ cart_log[1].user_id = cart_log[2].user_id
    /\ cart_log[1].healthy /\ cart_log[2].healthy

\* Both calls returned success, each store holds one cart row of the user,
\* and the second call inserted nothing.
OneCartEach ==
    /\ \A i \in 1 .. 2 :
          cart_log[i].raised = None /\ Success(cart_log[i].result)
    /\ \A st \in Stores : Len(CartsOf(carts[st], cart_log[2].user_id)) = 1
    /\ cart_log[2].inserted = {}

\* The coordinator writes to both stores.
WritesBoth == config.enabled /\ config.write_to_new /\ config.write_to_legacy

EnvLoaded == from_env_result # NotLoaded \/ from_env_raised # None

\* The string is one of the boolean words, in any case.
RecognisedBool(raw) ==
    Lower(raw) \in {"true", "1", "yes", "on", "false", "0", "no", "off"}

\* The variable is set to a string that is malformed for its field.
Malformed(k) ==
    /\ environ[k] # Unset
    /\ IF FieldOfKey[k] \in IntFields
       THEN environ[k] \notin DOMAIN IntLiterals
       ELSE ~RecognisedBool(environ[k])

\* C31: loading settings from the environment never raises, and every
\* variable whose value is malformed (an integer variable that is not an
\* integer, a boolean variable that is not a boolean word) yields the
\* default of its field.
C31_MalformedGivesDefault ==
    EnvLoaded =>
        /\ from_env_raised = None
        /\ \A k \in DOMAIN FieldOfKey :
              Malformed(k) =>
                  from_env_result[FieldOfKey[k]]
                      = SettingsDefaults[FieldOfKey[k]]

\* --------------------------------------------------- no compensation claim
\* dual_write has raised the new store's error under fail_on_new_error, in a
\* call that also wrote to the legacy store.
RaisedNewError ==
    /\ pc = "raised"
    /\ raised \in NewErrors
    /\ config.enabled /\ config.fail_on_new_error /\ config.write_to_legacy

\* C32: a failure of the new-store operation never cancels or rolls back
\* the legacy operation: when dual_write raises the new-store error, the
\* legacy task has run to its end and, if it succeeded, its commit is in the
\* legacy store.
C32_NoCompensation ==
    RaisedNewError =>
        /\ legacy_pc \in {"done", "failed"}
        /\ legacy_session = "closed"
        /\ legacy_pc = "done" =>
              /\ result.legacy_db_success
              /\ legacy_store = quantity

C32_Witness ==
    /\ RaisedNewError
    /\ legacy_pc = "done"
    /\ result.legacy_db_success
    /\ legacy_store = quantity
    /\ legacy_store_before # quantity
    /\ new_store = new_store_before
    /\ new_store # quantity

\* ------------------------------------------------------ result flag claims
\* The stores a dual_write call with this configuration writes to.
RunsNew(cfg) == DisabledPath(cfg) \/ cfg.write_to_new

RunsLegacy(cfg) == ~DisabledPath(cfg) /\ cfg.write_to_legacy

\* C39: at every point of every dual_write call, a store's success flag and
\* its error are never both set, a success flag once set is never cleared,
\* and a store the call does not write to keeps success false and the error
\* unset.
C39_FlagsExclusive ==
    /\ [](\A c \in CallIds :
            c_result[c] # 0 =>
                LET r == results[c_result[c]]
                IN  /\ r.new_db_success => r.new_db_error = None
                    /\ r.legacy_db_success => r.legacy_db_error = None
                    /\ ~RunsNew(config) =>
                          ~r.new_db_success /\ r.new_db_error = None
                    /\ ~RunsLegacy(config) =>
                          ~r.legacy_db_success /\ r.legacy_db_error = None)
    /\ [][\A c \in CallIds :
              c_result[c] # 0 =>
                  /\ c_result'[c] = c_result[c]
                  /\ results[c_result[c]].new_db_success
                        => results'[c_result[c]].new_db_success
                  /\ results[c_result[c]].legacy_db_success
                        => results'[c_result[c]].legacy_db_success]_vars

C39_Witness ==
    /\ config.enabled /\ config.write_to_new /\ ~config.write_to_legacy
    /\ c_pc["a"] = "returned"
    /\ results[c_result["a"]].new_db_success
    /\ c_pc["b"] = "gather"
    /\ results[c_result["b"]].new_db_error = "commit_error"
    /\ \A c \in CallIds :
          /\ ~results[c_result[c]].legacy_db_success
          /\ results[c_result[c]].legacy_db_error = None

\* ------------------------------------------------ service settings claims
\* init_dual_write created a coordinator and dual_write was called on it.
ServiceCalled == svc_outcome # NoOutcome

\* C33: a flag the service settings hold as "false" is false for
\* dual_write: with fail_on_legacy_error "false" a legacy failure is not
\* raised, with write_to_legacy "false" the legacy store is not written,
\* and with enabled "false" no coordinator writing to the legacy store is
\* created.
C33_FalseStringIsFalse ==
    /\ (/\ ServiceCalled
        /\ app_settings.fail_on_legacy_error = "false"
        /\ svc_outcome.legacy_ran /\ ~svc_outcome.legacy_ok
        /\ svc_outcome.new_ok)
          => svc_outcome.raised = None
    /\ (ServiceCalled /\ app_settings.write_to_legacy = "false")
          => ~svc_outcome.legacy_ran
    /\ (svc_started /\ app_settings.enabled = "false")
          => \/ dual_write_manager = NoManager
             \/ ServiceCalled => ~svc_outcome.legacy_ran

\* --------------------------------------------------------- cart id claims
\* Every user has a users row in both stores, and the coordinator writes to
\* both stores and tolerates a legacy failure.
TolerantDualWrite ==
    /\ WritesBoth
    /\ ~config.fail_on_legacy_error
    /\ \A st \in Stores : cart_users[st] = CartUserIds

\* C34: after any sequence of serialized create_cart calls, calls whose
\* legacy write failed and was retried later included, a user's cart row
\* has the same id in the new store and in the legacy store.
C34_SameCartIds ==
    TolerantDualWrite =>
        \A u \in CartUserIds :
            (HasCart(carts["new"], u) /\ HasCart(carts["legacy"], u))
                => CartsOf(carts["new"], u)[1].id
                       = CartsOf(carts["legacy"], u)[1].id

\* ------------------------------------------------ post-write validation
\* The entry the create_cart call of this step adds to the log.
ThisCall == cart_log'[Len(cart_log')]

\* C35: starting from two stores that hold the same rows, a create_cart call
\* in which both store operations commit returns sync_validated == true.
C35_InsertedRowsAgree ==
    [][(/\ carts["new"] = carts["legacy"]
        /\ WritesBoth /\ config.validate_sync
        /\ cart_calls' = cart_calls + 1
        /\ ThisCall.result.new_db_success
        /\ ThisCall.result.legacy_db_success)
           => ThisCall.result.sync_validated]_vars

\* ------------------------------------------------- legacy-only claim
\* dual_write returned on a coordinator that is enabled and does not write
\* to the new store.
ReturnedLegacyOnly ==
    pc = "returned" /\ config.enabled /\ ~config.write_to_new

C37_RoundTripRestores ==
    switch_trace = <<"switch_to_legacy_db_only", "switch_to_new_db_only">>
        => /\ current_settings
                 = ApplyKwargs(initial_settings, NewOnlyKwargs)
           /\ current_settings.fail_on_new_error
                 = initial_settings.fail_on_new_error

\* At least one of the two writers is on.
SomeWriter(st) == st.write_to_legacy \/ st.write_to_new

\* The last operation applied.
LastOp == switch_trace[Len(switch_trace)]

\* C38: from settings with at least one writer on, every non-empty sequence
\* of the four cut-over operations keeps at least one writer on; after a
\* switch operation exactly one writer is on, whatever the settings were.
C38_WriterKept ==
    switch_trace # <<>> =>
        /\ SomeWriter(initial_settings) => SomeWriter(current_settings)
        /\ LastOp \in {"switch_to_new_db_only", "switch_to_legacy_db_only"}
              => current_settings.write_to_legacy
                     # current_settings.write_to_new

C38_Witness ==
    /\ initial_settings.write_to_legacy /\ initial_settings.write_to_new
    /\ switch_trace = <<"switch_to_legacy_db_only", "disable_dual_write",
                        "switch_to_new_db_only">>
    /\ current_settings.write_to_new /\ ~current_settings.write_to_legacy
    /\ ~current_settings.enabled

\* ------------------------------------------------------ sync_entity claim
\* C40: after sync_entity(uid, direction) returned True for a user that
\* exists in the source store, validate_user_sync(uid) returns True,
\* whether the destination had the user or not.
C40_SyncEntityAligns ==
    (/\ sync_returned = "True"
     /\ validate_returned # "none"
     /\ auth_users[SourceOf(sync_direction)] # NoUser)
        => validate_returned = "True"

====
